---- MODULE Spec2Model ----
(***************************************************************************)
(* State-machine model of the SEO analyzer server: the shared browser      *)
(* manager (BrowserManager.getBrowser / closeBrowser), the page fetcher    *)
(* and the /api/analyze pipeline, in the three versions of the repository: *)
(*   "server"  : src/server.js                                             *)
(*   "part001" : src/unnamed/part_001                                      *)
(*   "part000" : src/unnamed/part_000                                      *)
(* One atomic step of the model is one run-to-completion slice of the      *)
(* JavaScript event loop: the code between two awaits.                     *)
(***************************************************************************)
EXTENDS Integers, Sequences, FiniteSets, TLC

VARIABLES
    ver,            \* which version of the code runs (fixed by Init)
    browser,        \* BrowserManager.browser (Null or a browser id)
    lastUsed,       \* BrowserManager.lastUsed (Null or a timestamp)
    initAttempts,   \* BrowserManager.initAttempts
    isInitializing, \* BrowserManager.isInitializing
    live,           \* browser processes launched and not yet closed/crashed
    now,            \* Date.now()
    proc,           \* per async call chain: position and locals
    exhausted,      \* history: the last getBrowser call to end threw for an exhausted budget
    req,            \* the /api/analyze request in progress: its locals
    pages,          \* page sessions opened by the fetch: close calls per page
    results,        \* the report under construction
    audit,          \* the runLighthouseAnalysis task of the request
    ssl,            \* the certificate probe of the request
    response        \* what was sent to the client

mgrVars == <<browser, lastUsed, initAttempts, isInitializing, live, now, exhausted>>
reqVars == <<req, pages, results, audit, ssl, response>>
vars == <<ver, browser, lastUsed, initAttempts, isInitializing, live, now, proc, exhausted,
          req, pages, results, audit, ssl, response>>

(***************************************************************************)
(* Bounds of the model.                                                    *)
(***************************************************************************)
NumCallers == 2
MaxBrowsers == 2
MaxTicks == 1

(***************************************************************************)
(* Program constants.                                                      *)
(***************************************************************************)
maxInitAttempts == 3
maxWaitAttempts == 30
maxIdleTime == 5 * 60 * 1000

Null == 0
Versions == {"server", "part001", "part000"}
Procs == 1..NumCallers
BrowserIds == 1..MaxBrowsers

\* part_000's manager has no isInitializing flag, no reset of initAttempts,
\* no cleanup in the catch block and no final validation.
HasFlag == ver # "part000"
ResetsAttempts == ver # "part000"
NullsOldHandle == ver # "part000"
HasCleanup == ver # "part000"
HasValidation == ver # "part000"
\* only server.js probes the launched browser with a test page
HasProbe == ver = "server"

(***************************************************************************)
(* browser.isConnected()                                                   *)
(***************************************************************************)
isConnected(b) == b \in live

\* the test without its idle-time clause
needsNewBrowser_noIdle ==
    \/ browser = Null
    \/ ~isConnected(browser)

needsNewBrowser ==
    \/ browser = Null
    \/ ~isConnected(browser)
    \/ (lastUsed # Null /\ now - lastUsed > maxIdleTime)

\* a browser id no part of the state refers to
Referenced ==
    live \cup {browser} \cup {proc[p].browser : p \in Procs} \cup {proc[p].tgt : p \in Procs}
FreeIds == BrowserIds \ Referenced
FreshId == CHOOSE b \in FreeIds : \A c \in FreeIds : b <= c

\* ghost count of puppeteer.launch calls of one getBrowser call (saturating)
CountLaunch(n) == IF n > maxInitAttempts THEN n ELSE n + 1

InitProc ==
    [pc |-> "idle", ret |-> "done", attempts |-> 0, tgt |-> Null, browser |-> Null,
     outcome |-> "none", err |-> "none", launches |-> 0, afterExhausted |-> FALSE]

(***************************************************************************)
(* Return and throw of getBrowser / closeBrowser to the caller's           *)
(* continuation r.ret.                                                     *)
(***************************************************************************)
RetOk(r, h) == [r EXCEPT !.pc = r.ret, !.outcome = "ok", !.browser = h, !.err = "none"]
RetThrow(r, msg) == [r EXCEPT !.pc = r.ret, !.outcome = "throw", !.err = msg]
RetVoid(r) == [r EXCEPT !.pc = r.ret, !.outcome = "closed", !.err = "none"]
ThrewExhausted(r) == r.outcome = "throw" /\ r.err = "Failed to launch browser"

(***************************************************************************)
(* getBrowser's tail: the final validation (absent from part_000), the     *)
(* update of lastUsed and the return.  br is this.browser at that point.   *)
(***************************************************************************)
\* evaluated on the state the step leaves (a handle just launched is live)
FinalValidation(br) == ~HasValidation \/ (br # Null /\ br \in live')

\* lastUsed stamped before the validation
Validate_stampsFirst(p, r, br) ==
    /\ lastUsed' = now
    /\ proc' = [proc EXCEPT ![p] =
                   IF FinalValidation(br) THEN RetOk(r, br)
                   ELSE RetThrow(r, "Browser is not available or connected")]

Validate(p, r, br) ==
    /\ IF FinalValidation(br)
       THEN /\ lastUsed' = now
            /\ proc' = [proc EXCEPT ![p] = RetOk(r, br)]
       ELSE /\ lastUsed' = lastUsed
            /\ proc' = [proc EXCEPT ![p] = RetThrow(r, "Browser is not available or connected")]

\* the retry loop is left normally: the finally block clears the flag
AfterLoop(p, r, ia, br) ==
    /\ initAttempts' = ia
    /\ isInitializing' = FALSE
    /\ Validate(p, r, br)

(***************************************************************************)
(* The test of while (this.initAttempts < this.maxInitAttempts): another   *)
(* launch is started, or the loop is left.  fl is the value the flag has.  *)
(***************************************************************************)
Loop(p, r, ia, br, fl) ==
    IF ia < maxInitAttempts
    THEN /\ proc' = [proc EXCEPT ![p] = [r EXCEPT !.pc = "gb_launch",
                                                  !.launches = CountLaunch(r.launches)]]
         /\ initAttempts' = ia
         /\ isInitializing' = fl
         /\ UNCHANGED lastUsed
    ELSE AfterLoop(p, r, ia, br)

(***************************************************************************)
(* The end of the catch block of one attempt: throw once the budget is     *)
(* used up (the finally block clears the flag), else wait before retrying. *)
(***************************************************************************)
Budget(p, r, ia) ==
    IF ia >= maxInitAttempts
    THEN /\ proc' = [proc EXCEPT ![p] = RetThrow(r, "Failed to launch browser")]
         /\ isInitializing' = FALSE
    ELSE /\ proc' = [proc EXCEPT ![p] = [r EXCEPT !.pc = "gb_backoff"]]
         /\ UNCHANGED isInitializing

\* catch (error) of one attempt: count it, close what this.browser holds
Catch(p, r) ==
    /\ initAttempts' = initAttempts + 1
    /\ UNCHANGED <<browser, live, lastUsed, now, ver>>
    /\ IF HasCleanup /\ browser # Null
       THEN /\ proc' = [proc EXCEPT ![p] = [r EXCEPT !.pc = "gb_cleanup", !.tgt = browser]]
            /\ UNCHANGED isInitializing
       ELSE Budget(p, r, initAttempts + 1)
    /\ exhausted' = (exhausted \/ ThrewExhausted(proc'[p]))

(***************************************************************************)
(* The synchronous part of getBrowser from the needsNewBrowser test on.    *)
(***************************************************************************)
Decide(p, r) ==
    /\ UNCHANGED <<browser, live, now, ver>>
    /\ IF needsNewBrowser
       THEN IF browser # Null
            THEN /\ proc' = [proc EXCEPT ![p] = [r EXCEPT !.pc = "gb_closeOld", !.tgt = browser]]
                 /\ isInitializing' = HasFlag
                 /\ UNCHANGED <<initAttempts, lastUsed>>
            ELSE Loop(p, r, IF ResetsAttempts THEN 0 ELSE initAttempts, browser, HasFlag)
       ELSE /\ Validate(p, r, browser)
            /\ UNCHANGED <<initAttempts, isInitializing>>

(***************************************************************************)
(* getBrowser is called by the chain p, whose record (with the             *)
(* continuation r.ret) is r.  With the flag set the caller polls it.       *)
(***************************************************************************)
GetBrowser(p, r0) ==
    LET r == [r0 EXCEPT !.launches = 0, !.afterExhausted = exhausted, !.outcome = "none",
                        !.err = "none"]
    IN /\ exhausted' = FALSE
       /\ IF HasFlag /\ isInitializing
          THEN /\ proc' = [proc EXCEPT ![p] = [r EXCEPT !.pc = "gb_wait", !.attempts = 0]]
               /\ UNCHANGED <<ver, browser, lastUsed, initAttempts, isInitializing, live, now>>
          ELSE Decide(p, r)

\* one delay(500) of the wait loop has elapsed
GbPoll(p) ==
    /\ UNCHANGED reqVars
    /\ proc[p].pc = "gb_wait"
    /\ LET r == [proc[p] EXCEPT !.attempts = @ + 1]
       IN IF isInitializing /\ r.attempts < maxWaitAttempts
          THEN /\ proc' = [proc EXCEPT ![p] = r]
               /\ UNCHANGED <<ver, browser, lastUsed, initAttempts, isInitializing, live, now>>
          ELSE Decide(p, [r EXCEPT !.attempts = 0])
    /\ UNCHANGED exhausted

\* await this.browser.close() of the old handle has settled (a throw is logged)
GbCloseOldDone(p) ==
    /\ UNCHANGED reqVars
    /\ proc[p].pc = "gb_closeOld"
    /\ live' = live \ {proc[p].tgt}
    /\ browser' = IF NullsOldHandle THEN Null ELSE browser
    /\ UNCHANGED <<now, ver>>
    /\ Loop(p, [proc[p] EXCEPT !.tgt = Null],
            IF ResetsAttempts THEN 0 ELSE initAttempts, browser', isInitializing)
    /\ UNCHANGED exhausted

\* puppeteer.launch resolved
GbLaunchOk(p) ==
    /\ UNCHANGED reqVars
    /\ proc[p].pc = "gb_launch"
    /\ FreeIds # {}
    /\ LET b == FreshId
       IN /\ live' = live \cup {b}
          /\ browser' = b
          /\ UNCHANGED <<now, ver>>
          /\ IF HasProbe
             THEN /\ proc' = [proc EXCEPT ![p] = [@ EXCEPT !.pc = "gb_probe", !.tgt = b]]
                  /\ UNCHANGED <<initAttempts, isInitializing, lastUsed>>
             ELSE AfterLoop(p, proc[p], 0, b)
    /\ UNCHANGED exhausted

\* puppeteer.launch rejected
GbLaunchFail(p) ==
    /\ UNCHANGED reqVars
    /\ proc[p].pc = "gb_launch"
    /\ Catch(p, proc[p])

\* the test page was opened and closed
GbProbeOk(p) ==
    /\ UNCHANGED reqVars
    /\ proc[p].pc = "gb_probe"
    /\ isConnected(proc[p].tgt)
    /\ UNCHANGED <<browser, live, now, ver>>
    /\ AfterLoop(p, [proc[p] EXCEPT !.tgt = Null], 0, browser)
    /\ UNCHANGED exhausted

\* newPage or testPage.close threw
GbProbeFail(p) ==
    /\ UNCHANGED reqVars
    /\ proc[p].pc = "gb_probe"
    /\ Catch(p, [proc[p] EXCEPT !.tgt = Null])

\* the cleanup close of the catch block has settled (a throw is ignored)
GbCleanupDone(p) ==
    /\ UNCHANGED reqVars
    /\ proc[p].pc = "gb_cleanup"
    /\ live' = live \ {proc[p].tgt}
    /\ browser' = Null
    /\ UNCHANGED <<initAttempts, lastUsed, now, ver>>
    /\ Budget(p, [proc[p] EXCEPT !.tgt = Null], initAttempts)
    /\ exhausted' = (exhausted \/ ThrewExhausted(proc'[p]))

\* the backoff delay has elapsed
GbBackoffDone(p) ==
    /\ UNCHANGED reqVars
    /\ proc[p].pc = "gb_backoff"
    /\ UNCHANGED <<browser, live, now, ver>>
    /\ Loop(p, proc[p], initAttempts, browser, isInitializing)
    /\ UNCHANGED exhausted

(***************************************************************************)
(* closeBrowser                                                            *)
(***************************************************************************)
CloseBrowser(p, r) ==
    /\ proc' = [proc EXCEPT ![p] =
                  IF browser # Null THEN [r EXCEPT !.pc = "cb_close", !.tgt = browser]
                  ELSE RetVoid(r)]
    /\ UNCHANGED <<ver, browser, lastUsed, initAttempts, isInitializing, live, now, exhausted>>

\* await this.browser.close() resolved: this.browser = null
CbCloseOk(p) ==
    /\ UNCHANGED reqVars
    /\ proc[p].pc = "cb_close"
    /\ live' = live \ {proc[p].tgt}
    /\ browser' = Null
    /\ proc' = [proc EXCEPT ![p] = RetVoid([@ EXCEPT !.tgt = Null])]
    /\ UNCHANGED <<ver, lastUsed, initAttempts, isInitializing, now, exhausted>>

\* await this.browser.close() threw (the process is already gone): logged only
CbCloseThrow(p) ==
    /\ UNCHANGED reqVars
    /\ proc[p].pc = "cb_close"
    /\ ~isConnected(proc[p].tgt)
    /\ proc' = [proc EXCEPT ![p] = RetVoid([@ EXCEPT !.tgt = Null])]
    /\ UNCHANGED <<ver, browser, lastUsed, initAttempts, isInitializing, live, now, exhausted>>

(***************************************************************************)
(* Callers of the manager and the environment.                             *)
(***************************************************************************)
CallGetBrowser(p) ==
    /\ UNCHANGED reqVars
    /\ proc[p].pc = "idle"
    /\ GetBrowser(p, [proc[p] EXCEPT !.ret = "done"])

CallCloseBrowser(p) ==
    /\ UNCHANGED reqVars
    /\ proc[p].pc = "idle"
    /\ CloseBrowser(p, [proc[p] EXCEPT !.ret = "done"])

\* the caller drops the result
Finish(p) ==
    /\ UNCHANGED reqVars
    /\ proc[p].pc = "done"
    /\ proc' = [proc EXCEPT ![p] = InitProc]
    /\ UNCHANGED <<ver, browser, lastUsed, initAttempts, isInitializing, live, now, exhausted>>

\* a browser process dies on its own
Crash ==
    /\ UNCHANGED reqVars
    /\ browser \in live
    /\ live' = live \ {browser}
    /\ UNCHANGED <<ver, browser, lastUsed, initAttempts, isInitializing, now, proc, exhausted>>

\* time passes: exactly maxIdleTime, or one millisecond more
Tick ==
    /\ UNCHANGED reqVars
    /\ now < 1 + MaxTicks * maxIdleTime
    /\ \E dt \in {maxIdleTime, maxIdleTime + 1} : now' = now + dt
    /\ UNCHANGED <<ver, browser, lastUsed, initAttempts, isInitializing, live, proc, exhausted>>


(***************************************************************************)
(* The Rule Evaluator.  A document is what cheerio reads out of the        *)
(* fetched HTML (lengths, tag counts, flags) with the response headers and *)
(* the console errors of the fetch.  A check is <<type, finding>>.         *)
(***************************************************************************)
Check(type, finding) == <<type, finding>>

\* results.<cat>.<type>: the findings of that type, in order
RECURSIVE Bucket(_, _)
Bucket(checks, type) ==
    IF checks = <<>> THEN <<>>
    ELSE IF Head(checks)[1] = type
         THEN <<Head(checks)[2]>> \o Bucket(Tail(checks), type)
         ELSE Bucket(Tail(checks), type)

\* a warning is pushed to the failed list too
Category_warningTwice(checks) ==
    [passed |-> Bucket(checks, "passed"),
     failed |-> Bucket(checks, "failed") \o Bucket(checks, "warning"),
     warnings |-> Bucket(checks, "warning"), score |-> 0]

Category(checks) ==
    [passed |-> Bucket(checks, "passed"), failed |-> Bucket(checks, "failed"),
     warnings |-> Bucket(checks, "warning"), score |-> 0]

\* the score truncated instead of rounded
CategoryScore_truncated(cat, dflt) ==
    LET P == Len(cat.passed)
        F == Len(cat.failed)
        W == Len(cat.warnings)
        T == P + F + W
    IN IF T > 0 THEN (100 * (2 * P + W)) \div (2 * T) ELSE dflt

\* Math.round(((passed + warnings * 0.5) / total) * 100), or the default;
\* the binary64 quotient rounds as the exact one for every total below 20
CategoryScore(cat, dflt) ==
    LET P == Len(cat.passed)
        F == Len(cat.failed)
        W == Len(cat.warnings)
        T == P + F + W
    IN IF T > 0 THEN (100 * (2 * P + W) + T) \div (2 * T) ELSE dflt

\* part_001, the cheerio-based checks
CommonSeoChecks001(d) ==
    << IF d.titleLen > 0
       THEN IF d.titleLen > 10 /\ d.titleLen < 70 THEN Check("passed", "title good length")
            ELSE Check("warning", "title length")
       ELSE Check("failed", "missing title"),
       IF d.descLen > 0
       THEN IF d.descLen > 70 /\ d.descLen < 160 THEN Check("passed", "description good length")
            ELSE Check("warning", "description length")
       ELSE Check("failed", "missing description"),
       IF d.h1 = 1 THEN Check("passed", "one h1")
       ELSE IF d.h1 = 0 THEN Check("failed", "missing h1")
       ELSE Check("warning", "multiple h1") >>
    \o (IF d.img > 0
        THEN IF d.imgNoAlt = 0 THEN <<Check("passed", "images have alt")>>
             ELSE <<Check("failed", "images missing alt")>>
        ELSE <<>>)
    \o << IF d.consoleErrors = 0 THEN Check("passed", "no console errors")
          ELSE Check("failed", "console errors") >>

SpeedChecks001(d) ==
    << IF d.styles + d.styleAttrs > 10 THEN Check("warning", "inline css")
       ELSE Check("passed", "low inline css"),
       IF d.sizeKB < 50 THEN Check("passed", "html small")
       ELSE Check("warning", "html large") >>

SecurityChecks001(d, https) ==
    (IF https
     THEN << Check("passed", "uses https"),
             IF d.insecureUrl THEN Check("warning", "mixed content")
             ELSE Check("passed", "no mixed content") >>
     ELSE << Check("failed", "no https") >>)
    \o << IF d.hsts THEN Check("passed", "hsts") ELSE Check("warning", "no hsts") >>

\* a finding only when the viewport is configured
MobileChecks001_onlyWhenConfigured(d) ==
    IF d.viewport THEN << Check("passed", "viewport") >> ELSE << >>

MobileChecks001(d) ==
    << IF d.viewport THEN Check("passed", "viewport") ELSE Check("failed", "no viewport") >>

AdvancedSeoChecks001(d, status) ==
    << IF d.canonical THEN Check("passed", "canonical") ELSE Check("warning", "no canonical"),
       IF d.jsonld THEN Check("passed", "structured data")
       ELSE Check("warning", "no structured data"),
       IF d.favicon THEN Check("passed", "favicon") ELSE Check("failed", "no favicon"),
       IF status = 404 THEN Check("failed", "status 404")
       ELSE IF status >= 400 THEN Check("failed", "error status")
       ELSE Check("passed", "status ok") >>

\* server.js and part_000, the checks of the four categories
SeoChecks(d) ==
    << IF d.titleLen > 0
       THEN IF d.titleLen >= 30 /\ d.titleLen <= 60 THEN Check("passed", "title optimal")
            ELSE IF d.titleLen < 30 THEN Check("warning", "title too short")
            ELSE Check("failed", "title too long")
       ELSE Check("failed", "missing title"),
       IF d.descLen > 0
       THEN IF d.descLen >= 120 /\ d.descLen <= 160
            THEN Check("passed", "description optimal")
            ELSE IF d.descLen < 120 THEN Check("warning", "description too short")
            ELSE Check("failed", "description too long")
       ELSE Check("failed", "missing description"),
       IF d.h1 = 1 THEN Check("passed", "one h1")
       ELSE IF d.h1 = 0 THEN Check("failed", "missing h1")
       ELSE Check("warning", "multiple h1"),
       IF d.h2 > 0 THEN Check("passed", "h2 present") ELSE Check("warning", "no h2") >>
    \o (IF d.img > 0
        THEN IF d.imgNoAlt = 0 THEN <<Check("passed", "images have alt")>>
             ELSE <<Check("failed", "images missing alt")>>
        ELSE <<>>)
    \o << IF d.viewport THEN Check("passed", "viewport") ELSE Check("failed", "no viewport"),
          IF d.canonical THEN Check("passed", "canonical")
          ELSE Check("warning", "no canonical"),
          IF d.favicon THEN Check("passed", "favicon") ELSE Check("failed", "no favicon"),
          IF d.og THEN Check("passed", "open graph") ELSE Check("warning", "no open graph"),
          IF d.jsonld THEN Check("passed", "structured data")
          ELSE Check("warning", "no structured data") >>

PerformanceChecks(d) ==
    << IF d.scripts <= 10 THEN Check("passed", "scripts ok") ELSE Check("failed", "too many scripts"),
       IF d.styles <= 3 THEN Check("passed", "styles ok") ELSE Check("warning", "many styles"),
       IF d.img <= 20 THEN Check("passed", "images ok") ELSE Check("warning", "many images") >>

SecurityChecks(d, https) ==
    << IF https THEN Check("passed", "uses https") ELSE Check("failed", "no https") >>
    \o (IF https /\ ~d.insecureUrl THEN <<Check("passed", "no mixed content")>>
        ELSE IF https THEN <<Check("warning", "mixed content")>>
        ELSE <<>>)

MobileChecks(d) ==
    << IF d.viewport THEN Check("passed", "viewport") ELSE Check("failed", "no viewport"),
       IF d.media THEN Check("passed", "responsive") ELSE Check("warning", "not responsive"),
       IF ~d.flash THEN Check("passed", "no flash") ELSE Check("failed", "flash") >>

CategoryNames ==
    IF ver = "part001" THEN {"commonSeo", "speed", "security", "mobile", "advancedSeo"}
    ELSE {"seo", "performance", "security", "mobile"}

\* the checks the rules give category c for document d
RuleChecks(c, d, https, status) ==
    IF ver = "part001"
    THEN CASE c = "commonSeo" -> CommonSeoChecks001(d)
           [] c = "speed" -> SpeedChecks001(d)
           [] c = "security" -> SecurityChecks001(d, https)
           [] c = "mobile" -> MobileChecks001(d)
           [] c = "advancedSeo" -> AdvancedSeoChecks001(d, status)
    ELSE CASE c = "seo" -> SeoChecks(d)
           [] c = "performance" -> PerformanceChecks(d)
           [] c = "security" -> SecurityChecks(d, https)
           [] c = "mobile" -> MobileChecks(d)

\* the default score of a category without checks
EmptyScore(c) ==
    IF ver = "part001" THEN 100
    ELSE CASE c = "seo" -> 0 [] c = "performance" -> 70 [] c = "security" -> 50
           [] c = "mobile" -> 70

\* results after the cheerio-based checks; server.js scores each category
\* right after its checks, part_001 scores in calculateScores only
RuleResults(d, https, status) ==
    [c \in CategoryNames |->
        LET cat == Category(RuleChecks(c, d, https, status))
        IN IF ver = "part001" THEN cat
           ELSE [cat EXCEPT !.score = CategoryScore(cat, EmptyScore(c))]]

Push(res, c, type, finding) ==
    [res EXCEPT ![c] =
        CASE type = "passed" -> [@ EXCEPT !.passed = Append(@, finding)]
          [] type = "failed" -> [@ EXCEPT !.failed = Append(@, finding)]
          [] type = "warning" -> [@ EXCEPT !.warnings = Append(@, finding)]]

\* part_001 calculateScores: the category scores
ScoreCategories(res) ==
    [c \in DOMAIN res |-> [res[c] EXCEPT !.score = CategoryScore(res[c], EmptyScore(c))]]

\* part_001: the weighted sums 0.3 a + 0.3 b + 0.15 c + 0.15 d + 0.1 e that
\* are a half in the reals but that binary64, adding the products in the
\* order of the weights, evaluates to the double just below the half
\* (28.499999999999996, 31.499999999999996).  The table is complete for the
\* category scores this model computes; the division by totalWeight
\* (exactly 1.0 in binary64) changes nothing.
SumBelowHalf(a, b, c, d, e) ==
    <<a, b, c, d, e>> \in {<<3, 67, 50, 0, 0>>, <<13, 67, 50, 0, 0>>}

\* the overall score: part_001 weights five categories (0.3, 0.3, 0.15,
\* 0.15, 0.1) and rounds the double; server.js takes the mean of four
\* the sum of two scores instead of the mean
OverallScore_notAveraged(res) ==
    IF ver = "part001" THEN res["commonSeo"].score + res["speed"].score
    ELSE res["seo"].score + res["performance"].score

OverallScore(res) ==
    IF ver = "part001"
    THEN LET a == res["commonSeo"].score
             b == res["speed"].score
             c == res["security"].score
             d == res["mobile"].score
             e == res["advancedSeo"].score
             sum100 == 30 * a + 30 * b + 15 * c + 15 * d + 10 * e
         IN IF SumBelowHalf(a, b, c, d, e) THEN sum100 \div 100
            ELSE (sum100 + 50) \div 100
    ELSE (res["seo"].score + res["performance"].score + res["security"].score
          + res["mobile"].score + 2) \div 4

(***************************************************************************)
(* The inputs of one request.                                              *)
(***************************************************************************)
Urls == {"missing", "invalid", "http", "https"}

BaseDoc ==
    [titleLen |-> 0, descLen |-> 0, h1 |-> 0, h2 |-> 0, img |-> 0, imgNoAlt |-> 0,
     scripts |-> 0, styles |-> 0, styleAttrs |-> 0, sizeKB |-> 1, insecureUrl |-> FALSE,
     hsts |-> FALSE, viewport |-> FALSE, canonical |-> FALSE, jsonld |-> FALSE,
     favicon |-> FALSE, og |-> FALSE, media |-> FALSE, flash |-> FALSE, consoleErrors |-> 0]

\* the documents a fetch may return: a bare page, a well-formed page and a
\* page with several defects
Docs ==
    { BaseDoc,
      [BaseDoc EXCEPT !.titleLen = 40, !.descLen = 130, !.h1 = 1, !.h2 = 2, !.img = 3,
                      !.scripts = 4, !.styles = 1, !.sizeKB = 20, !.hsts = TRUE,
                      !.viewport = TRUE, !.canonical = TRUE, !.jsonld = TRUE,
                      !.favicon = TRUE, !.og = TRUE, !.media = TRUE],
      [BaseDoc EXCEPT !.titleLen = 5, !.h1 = 2, !.img = 25, !.imgNoAlt = 1, !.scripts = 12,
                      !.styles = 4, !.styleAttrs = 9, !.sizeKB = 80, !.insecureUrl = TRUE,
                      !.viewport = TRUE, !.flash = TRUE, !.consoleErrors = 2] }
NoDoc == [BaseDoc EXCEPT !.titleLen = -1]

\* what a successful audit returns: category scores 0..100 and the number
\* of render-blocking resources
AuditValues ==
    { [performance |-> 90, seo |-> 30, renderBlockingResources |-> 0],
      [performance |-> 0, seo |-> 100, renderBlockingResources |-> 2] }
NoAudit == [performance |-> -1, seo |-> -1, renderBlockingResources |-> -1]

\* errors of a navigation, and the substrings the code looks for in them
NavErrors ==
    {"Target closed", "Session closed", "Navigation timeout", "net::ERR_NAME_NOT_RESOLVED",
     "net::ERR_CONNECTION_REFUSED", "net::ERR_CERT_", "other"}

Includes(msg, sub) ==
    CASE msg = "Target closed" -> sub = "Target closed"
      [] msg = "Session closed" -> sub = "Session closed"
      [] msg = "Navigation timeout" -> sub = "timeout"
      [] msg = "net::ERR_NAME_NOT_RESOLVED" -> sub = "net::ERR_NAME_NOT_RESOLVED"
      [] msg = "net::ERR_CONNECTION_REFUSED" -> sub = "net::ERR_CONNECTION_REFUSED"
      [] msg = "net::ERR_CERT_" -> sub = "net::ERR_CERT_"
      [] msg = "Browser is not available or connected" -> sub = "Browser is not available"
      [] msg = "DNS resolution failed" -> sub = "DNS resolution failed"
      [] msg = "connection was unexpectedly closed; anti-bot protection" ->
             sub = "anti-bot protection"
      [] msg = "took too long to respond" -> sub = "took too long"
      [] OTHER -> FALSE

\* the message thrown after the last navigation attempt failed with msg,
\* without its constant prefix 'Failed to load page after 3 navigation
\* attempts: '; server.js rewrites 'Session closed' too, part_000 does not
NavErrorMessage(msg) ==
    IF Includes(msg, "Target closed") \/ (ver = "server" /\ Includes(msg, "Session closed"))
    THEN "connection was unexpectedly closed; anti-bot protection"
    ELSE IF Includes(msg, "timeout") THEN "took too long to respond"
    ELSE IF Includes(msg, "net::ERR_NAME_NOT_RESOLVED") THEN "domain could not be found"
    ELSE IF Includes(msg, "net::ERR_CONNECTION_REFUSED") THEN "refused the connection"
    ELSE IF Includes(msg, "net::ERR_CERT_") THEN "SSL certificate issue"
    ELSE msg

\* analyzePage of server.js: the errors it restarts the browser for
IsBrowserError(msg) ==
    \/ Includes(msg, "Target closed")
    \/ Includes(msg, "Session closed")
    \/ Includes(msg, "Browser is not available")
    \/ Includes(msg, "page is null")

maxRetries == 2
navigationRetries == 3

ReqProc == CHOOSE p \in Procs : \A q \in Procs : p <= q
InitReqRec ==
    [url |-> "none", retryCount |-> 0, navRetries |-> 0, page |-> 0, err |-> "none",
     pend |-> "none", doc |-> NoDoc, status |-> 0, content |-> "none",
     auditSeen |-> "none", sslSeen |-> "none", gotos |-> <<>>, navErr |-> "none"]
NoResults ==
    [cats |-> <<>>, lighthouse |-> [error |-> "unset", value |-> NoAudit],
     sslInfo |-> "unset", overallScore |-> -1, totalPassed |-> -1, totalWarnings |-> -1,
     totalFailed |-> -1]
InitAudit == [pc |-> "none", chrome |-> "none", out |-> "none", value |-> NoAudit]
InitSsl == [pc |-> "none", value |-> "none"]
\* the response: its status, and the error and details members of its body
\* ("none": the member is absent)
NoResponse == [status |-> 0, error |-> "none", details |-> "none"]

Https == req.url = "https"
SetPc(pc) == proc' = [proc EXCEPT ![ReqProc] = [@ EXCEPT !.pc = pc]]
AtPc(pc) == proc[ReqProc].pc = pc

mgrAll == <<ver, browser, lastUsed, initAttempts, isInitializing, live, now, exhausted>>
Me == proc[ReqProc]

(***************************************************************************)
(* POST /api/analyze after the fetch.  The fetch returned rq.doc with      *)
(* rq.status (pend = "return") or threw rq.err (pend = "throw").           *)
(* part_001 starts the audit and the certificate probe and then evaluates  *)
(* the rules, all before its first await; server.js and part_000 evaluate  *)
(* and score the rules, then await the certificate probe of an https URL,  *)
(* and start the audit only after that.                                    *)
(***************************************************************************)
\* one results object for all requests: the findings accumulate
NewResults_shared(cats) ==
    [results EXCEPT !.cats =
        [c \in DOMAIN cats |->
            [cats[c] EXCEPT !.passed = (IF results.cats = <<>> THEN <<>>
                                        ELSE results.cats[c].passed) \o @]]]

\* const results = { ... }: the report object of one request
NewResults(cats) == [NoResults EXCEPT !.cats = cats]

StartAudit == [InitAudit EXCEPT !.pc = "launching"]
StartSsl == [InitSsl EXCEPT !.pc = "connecting"]

FetchDone(rq, pend) ==
    LET Go(pc) == proc' = [proc EXCEPT ![ReqProc] = [InitProc EXCEPT !.pc = pc]]
        kept == [InitReqRec EXCEPT !.url = rq.url, !.pend = pend]
    IN IF pend = "throw"
       THEN /\ req' = kept
            /\ response' = [status |-> 500,
                            error |-> IF ver = "part001" THEN "Failed to analyze URL."
                                      ELSE "Failed to load the webpage",
                            details |-> rq.err]
            /\ Go("responded")
            /\ UNCHANGED <<results, audit, ssl>>
       ELSE /\ req' = [kept EXCEPT !.doc = rq.doc, !.status = rq.status]
            /\ results' = NewResults(RuleResults(rq.doc, rq.url = "https", rq.status))
            /\ UNCHANGED response
            /\ IF ver = "part001"
               THEN /\ audit' = StartAudit
                    /\ ssl' = IF rq.url = "https" THEN StartSsl
                              ELSE [pc |-> "settled", value |-> "info"]
                    /\ Go("h_awaitAudit")
               ELSE IF rq.url = "https"
                    THEN /\ ssl' = StartSsl
                         /\ UNCHANGED audit
                         /\ Go("h_awaitSsl")
                    ELSE /\ audit' = StartAudit
                         /\ UNCHANGED ssl
                         /\ Go("h_awaitAudit")

(***************************************************************************)
(* The finally block of the fetcher: page.close() is called when a page is *)
(* held (part_001: and page.isClosed() is false).                          *)
(***************************************************************************)
isClosed(pg) == pages[pg] > 0

Finally(rq, pend) ==
    IF rq.page # 0 /\ (ver = "part001" => ~isClosed(rq.page))
    THEN /\ pages' = [pages EXCEPT ![rq.page] = @ + 1]
         /\ req' = [rq EXCEPT !.pend = pend]
         /\ SetPc("f_finalClose")
         /\ UNCHANGED <<results, audit, ssl, response>>
    ELSE /\ UNCHANGED pages
         /\ FetchDone(rq, pend)

(***************************************************************************)
(* server.js analyzePage, catch (error) of one attempt: the page is closed *)
(* and forgotten; a browser-related error with retries left restarts the   *)
(* browser and runs the attempt again, any other error is thrown.          *)
(***************************************************************************)
OuterTail(rq, e) ==
    IF rq.retryCount < maxRetries /\ IsBrowserError(e)
    THEN /\ CloseBrowser(ReqProc, [Me EXCEPT !.ret = "a_retry"])
         /\ req' = [rq EXCEPT !.err = e]
         /\ UNCHANGED <<results, audit, ssl, response>>
    ELSE /\ FetchDone([rq EXCEPT !.err = e], "throw")
         /\ UNCHANGED mgrAll

OuterCatch(rq, e) ==
    IF rq.page # 0
    THEN /\ pages' = [pages EXCEPT ![rq.page] = @ + 1]
         /\ req' = [rq EXCEPT !.err = e]
         /\ SetPc("a_catchClose")
         /\ UNCHANGED <<results, audit, ssl, response>>
         /\ UNCHANGED mgrAll
    ELSE /\ UNCHANGED pages
         /\ OuterTail(rq, e)

\* an error e leaves the try block of the fetcher
Thrown(rq, e) ==
    IF ver = "server" THEN OuterCatch(rq, e)
    ELSE /\ Finally([rq EXCEPT !.err = e], "throw")
         /\ UNCHANGED mgrAll

\* the wait condition of a navigation attempt: switch (4 - navigationRetries)
WaitUntil_alwaysFirst(n) == "domcontentloaded"

WaitUntil(n) ==
    CASE 4 - n = 1 -> "domcontentloaded"
      [] 4 - n = 2 -> "load"
      [] 4 - n = 3 -> "networkidle2"
      [] OTHER -> "undefined"

\* the test of while (navigationRetries > 0 && !content); an attempt runs up
\* to page.goto(targetUrl, { waitUntil, timeout }), logged in gotos
LoopTest(rq) ==
    IF rq.navRetries > 0 /\ rq.content \in {"none", "empty"}
    THEN /\ req' = [rq EXCEPT !.gotos = Append(@, WaitUntil(rq.navRetries))]
         /\ SetPc("r_nav")
         /\ UNCHANGED <<pages, results, audit, ssl, response>>
    ELSE Finally(rq, "return")

\* catch (error) of one navigation attempt (server.js, part_000)
NavCatch(rq, e) ==
    LET n == rq.navRetries - 1
    IN IF n > 0
       THEN /\ req' = [rq EXCEPT !.navRetries = n, !.err = e, !.navErr = e]
            /\ SetPc("a_navWait")
            /\ UNCHANGED <<pages, results, audit, ssl, response>>
            /\ UNCHANGED mgrAll
       ELSE Thrown([rq EXCEPT !.navRetries = n, !.navErr = e], NavErrorMessage(e))

(***************************************************************************)
(* The page fetcher: getPageContent (part_001), analyzePage (server.js,    *)
(* part_000).  One action per await that settles.                          *)
(***************************************************************************)
\* POST /api/analyze arrives: 400 for a missing or malformed URL, else the
\* fetcher runs up to its first await
\* the early returns: !targetUrl, and new URL(targetUrl) throwing
Rejects_invalidOnly(url) == url = "invalid"

Rejects(url) == url \in {"missing", "invalid"}

\* the body of the 400 response
BadRequest(url) ==
    IF url = "missing"
    THEN [status |-> 400, error |-> "URL is required", details |-> "none"]
    ELSE IF ver = "part001"
         THEN [status |-> 400,
               error |-> "Invalid URL format. Please include http:// or https://",
               details |-> "none"]
         ELSE [status |-> 400, error |-> "Invalid URL format",
               details |-> "The provided URL is not valid"]

ReqStart(url) ==
    /\ AtPc("idle")
    /\ response = NoResponse
    /\ UNCHANGED <<pages, results, audit, ssl>>
    /\ IF Rejects(url)
       THEN /\ req' = [InitReqRec EXCEPT !.url = url]
            /\ response' = BadRequest(url)
            /\ SetPc("responded")
            /\ UNCHANGED mgrAll
       ELSE /\ req' = [InitReqRec EXCEPT !.url = url]
            /\ UNCHANGED response
            /\ IF ver = "part001"
               THEN GetBrowser(ReqProc, [Me EXCEPT !.ret = "r_gotBrowser"])
               ELSE /\ SetPc("a_dns")
                    /\ UNCHANGED mgrAll

\* dns.resolve4 resolved: getBrowser is called
ADnsOk ==
    /\ AtPc("a_dns")
    /\ GetBrowser(ReqProc, [Me EXCEPT !.ret = "r_gotBrowser"])
    /\ UNCHANGED reqVars

\* dns.resolve4 rejected
ADnsFail ==
    /\ AtPc("a_dns")
    /\ Thrown(req, "DNS resolution failed")

\* await browserManager.getBrowser() settled
GotBrowser ==
    /\ AtPc("r_gotBrowser")
    /\ IF Me.outcome = "throw"
       THEN Thrown(req, Me.err)
       ELSE /\ SetPc(IF ver = "server" THEN "a_health" ELSE "r_newPage")
            /\ UNCHANGED reqVars
            /\ UNCHANGED mgrAll

\* isBrowserHealthy answered true
AHealthy ==
    /\ AtPc("a_health")
    /\ browser # Null /\ isConnected(browser)
    /\ SetPc("r_newPage")
    /\ UNCHANGED reqVars
    /\ UNCHANGED mgrAll

\* isBrowserHealthy answered false: closeBrowser is called
AUnhealthy ==
    /\ AtPc("a_health")
    /\ browser = Null \/ ~isConnected(browser)
    /\ CloseBrowser(ReqProc, [Me EXCEPT !.ret = "a_reget"])
    /\ UNCHANGED reqVars

\* closeBrowser returned: getBrowser is called again
AReget ==
    /\ AtPc("a_reget")
    /\ GetBrowser(ReqProc, [Me EXCEPT !.ret = "a_gotBrowser2"])
    /\ UNCHANGED reqVars

AGotBrowser2 ==
    /\ AtPc("a_gotBrowser2")
    /\ IF Me.outcome = "throw"
       THEN Thrown(req, Me.err)
       ELSE /\ SetPc("r_newPage")
            /\ UNCHANGED reqVars
            /\ UNCHANGED mgrAll

\* browser.newPage() resolved
NewPageOk ==
    /\ AtPc("r_newPage")
    /\ Me.browser # Null /\ isConnected(Me.browser)
    /\ pages' = Append(pages, 0)
    /\ req' = [req EXCEPT !.page = Len(pages) + 1, !.navRetries = navigationRetries,
                          !.gotos = <<>>, !.navErr = "none"]
    /\ SetPc("r_config")
    /\ UNCHANGED <<results, audit, ssl, response>>
    /\ UNCHANGED mgrAll

\* browser.newPage() threw (on a null handle: a TypeError)
NewPageFail(e) ==
    /\ AtPc("r_newPage")
    /\ Me.browser = Null => e = "other"
    /\ Thrown(req, e)

\* setUserAgent / setViewport resolved
ConfigOk ==
    /\ AtPc("r_config")
    /\ UNCHANGED mgrAll
    /\ IF ver = "part001"
       THEN /\ SetPc("f_goto")
            /\ UNCHANGED reqVars
       ELSE LoopTest(req)

ConfigFail(e) ==
    /\ AtPc("r_config")
    /\ Thrown(req, e)

Statuses == {200, 404, 500}
GotoErrors == NavErrors \cup {"No response received"}
ContentKinds == {"empty", "short", "full"}

\* part_001: page.goto threw, or resolved without a response
F001GotoFail(e) ==
    /\ AtPc("f_goto")
    /\ Thrown(req, e)

\* part_001: page.goto resolved with a response
F001GotoStatus(st) ==
    /\ AtPc("f_goto")
    /\ req' = [req EXCEPT !.status = st]
    /\ SetPc(IF st >= 400 THEN "f_errContent" ELSE "f_content")
    /\ UNCHANGED <<pages, results, audit, ssl, response>>
    /\ UNCHANGED mgrAll

\* part_001: the content of an error page (or the fallback text) is returned
F001ErrContent(d) ==
    /\ AtPc("f_errContent")
    /\ Finally([req EXCEPT !.doc = d], "return")
    /\ UNCHANGED mgrAll

\* part_001: page.content() resolved, delay(1000) follows
F001ContentOk(d) ==
    /\ AtPc("f_content")
    /\ req' = [req EXCEPT !.doc = d]
    /\ SetPc("f_delay")
    /\ UNCHANGED <<pages, results, audit, ssl, response>>
    /\ UNCHANGED mgrAll

F001ContentFail(e) ==
    /\ AtPc("f_content")
    /\ Thrown(req, e)

F001Delay ==
    /\ AtPc("f_delay")
    /\ Finally(req, "return")
    /\ UNCHANGED mgrAll

\* server.js, part_000: page.goto threw, gave no response or a status >= 400
AGotoFail(e) ==
    /\ AtPc("r_nav")
    /\ NavCatch(req, e)

AGotoOk ==
    /\ AtPc("r_nav")
    /\ SetPc("a_loaded")
    /\ UNCHANGED reqVars
    /\ UNCHANGED mgrAll

\* waitForTimeout, page.title (part_000) or page.content threw
ALoadedFail(e) ==
    /\ AtPc("a_loaded")
    /\ NavCatch(req, e)

\* the page was read: content of kind c, parsed as d.  part_000 gives up
\* the attempt on an empty title, both on a content under 100 characters,
\* unless it is the last attempt
ALoaded(c, d) ==
    /\ AtPc("a_loaded")
    /\ c # "full" => d = BaseDoc
    /\ IF ver = "part000" /\ d.titleLen = 0 /\ req.navRetries > 1
       THEN NavCatch(req, "Page appears to be empty")
       ELSE LET rq == [req EXCEPT !.content = c, !.doc = d, !.status = 200]
            IN IF c # "full" /\ req.navRetries > 1
               THEN NavCatch(rq, "Page content appears to be incomplete")
               ELSE /\ Finally(rq, "return")
                    /\ UNCHANGED mgrAll

\* the wait of the navigation catch block has elapsed.  part_000 replaces
\* the page after 'Target closed' / 'Session closed': page.close() first
ANavWaitOk ==
    /\ AtPc("a_navWait")
    /\ UNCHANGED mgrAll
    /\ IF ver = "part000"
          /\ (Includes(req.err, "Target closed") \/ Includes(req.err, "Session closed"))
       THEN /\ pages' = [pages EXCEPT ![req.page] = @ + 1]
            /\ SetPc("a0_reclose")
            /\ UNCHANGED <<req, results, audit, ssl, response>>
       ELSE LoopTest(req)

\* page.waitForTimeout of the navigation catch block threw
ANavWaitFail(e) ==
    /\ AtPc("a_navWait")
    /\ Thrown([req EXCEPT !.navErr = "none"], e)

\* part_000: page.close() of the replaced page settled (a throw is ignored)
A0RecloseDone ==
    /\ AtPc("a0_reclose")
    /\ SetPc("a0_renew")
    /\ UNCHANGED reqVars
    /\ UNCHANGED mgrAll

\* part_000: page = await browser.newPage() of the replacement
A0RenewOk ==
    /\ AtPc("a0_renew")
    /\ Me.browser # Null /\ isConnected(Me.browser)
    /\ pages' = Append(pages, 0)
    /\ req' = [req EXCEPT !.page = Len(pages) + 1]
    /\ SetPc("r_config")
    /\ UNCHANGED <<results, audit, ssl, response>>
    /\ UNCHANGED mgrAll

\* part_000: the replacement could not be opened; page still is the old one
A0RenewFail(e) ==
    /\ AtPc("a0_renew")
    /\ Thrown(req, e)

\* server.js: page.close() of the catch block settled: page = null
ACatchCloseDone ==
    /\ AtPc("a_catchClose")
    /\ UNCHANGED pages
    /\ OuterTail([req EXCEPT !.page = 0], req.err)

\* server.js: closeBrowser returned: retryCount++; continue
ARetry ==
    /\ AtPc("a_retry")
    /\ req' = [req EXCEPT !.retryCount = @ + 1, !.content = "none"]
    /\ SetPc("a_dns")
    /\ UNCHANGED <<pages, results, audit, ssl, response>>
    /\ UNCHANGED mgrAll

\* page.close() of the finally block resolved (server.js, part_000: or threw)
FinalCloseDone ==
    /\ AtPc("f_finalClose")
    /\ UNCHANGED pages
    /\ FetchDone(req, req.pend)
    /\ UNCHANGED mgrAll

\* part_001: page.close() of the finally block threw
F001FinalCloseFail ==
    /\ AtPc("f_finalClose")
    /\ ver = "part001"
    /\ UNCHANGED pages
    /\ FetchDone([req EXCEPT !.err = "page.close failed"], "throw")
    /\ UNCHANGED mgrAll

(***************************************************************************)
(* runLighthouseAnalysis.  audit.chrome is the state of the Chrome it      *)
(* launched: "alive" from the launch on, "killed" once chrome.kill() was   *)
(* called.  audit.out is how the function settles.                         *)
(***************************************************************************)
\* the finally block: chrome.kill() is called
AuditFinally(out, v) == audit' = [pc |-> "killing", chrome |-> "killed", out |-> out, value |-> v]

AuditLaunchOk ==
    /\ audit.pc = "launching"
    /\ audit' = [audit EXCEPT !.pc = "running", !.chrome = "alive"]
    /\ UNCHANGED <<proc, req, pages, results, ssl, response>>
    /\ UNCHANGED mgrAll

\* chromeLauncher.launch rejected: chrome stays null, nothing to kill
AuditLaunchFail ==
    /\ audit.pc = "launching"
    /\ audit' = [audit EXCEPT !.pc = "settled", !.out = "error"]
    /\ UNCHANGED <<proc, req, pages, results, ssl, response>>
    /\ UNCHANGED mgrAll

\* lighthouse() resolved with a report
LhResolve(v) ==
    /\ audit.pc = "running"
    /\ AuditFinally("ok", v)
    /\ UNCHANGED <<proc, req, pages, results, ssl, response>>
    /\ UNCHANGED mgrAll

\* lighthouse() rejected, or resolved without lhr
LhFail ==
    /\ audit.pc = "running"
    /\ AuditFinally("error", NoAudit)
    /\ UNCHANGED <<proc, req, pages, results, ssl, response>>
    /\ UNCHANGED mgrAll

\* part_001 only: the 90 s timer inside runLighthouseAnalysis wins the race
LhTimeout ==
    /\ ver = "part001"
    /\ audit.pc = "running"
    /\ AuditFinally("timeout", NoAudit)
    /\ UNCHANGED <<proc, req, pages, results, ssl, response>>
    /\ UNCHANGED mgrAll

\* chrome.kill() resolved
AuditKillOk ==
    /\ audit.pc = "killing"
    /\ audit' = [audit EXCEPT !.pc = "settled"]
    /\ UNCHANGED <<proc, req, pages, results, ssl, response>>
    /\ UNCHANGED mgrAll

\* chrome.kill() threw: server.js logs it, part_001 and part_000 let it
\* replace the outcome of the function
AuditKillThrow ==
    /\ audit.pc = "killing"
    /\ audit' = IF ver = "server" THEN [audit EXCEPT !.pc = "settled"]
                ELSE [audit EXCEPT !.pc = "settled", !.out = "error", !.value = NoAudit]
    /\ UNCHANGED <<proc, req, pages, results, ssl, response>>
    /\ UNCHANGED mgrAll

(***************************************************************************)
(* getSslInfo / getSSLInfo: the certificate is read ("valid", "expired"),  *)
(* or the connection fails or times out ("error", "timeout"; in server.js  *)
(* and part_000 the 10 s timer of the handler's race included).            *)
(***************************************************************************)
SslResolve(v) ==
    /\ ssl.pc = "connecting"
    /\ ssl' = [pc |-> "settled", value |-> v]
    /\ UNCHANGED <<proc, req, pages, results, audit, response>>
    /\ UNCHANGED mgrAll

SslFail(v) ==
    /\ ssl.pc = "connecting"
    /\ ssl' = [pc |-> "settled", value |-> v]
    /\ UNCHANGED <<proc, req, pages, results, audit, response>>
    /\ UNCHANGED mgrAll

\* the timer fires before the handshake ended: socket.setTimeout of
\* getSslInfo (part_001), the 10 s timer of the handler's race (server.js,
\* part_000)
SslTimeout == SslFail("timeout")

SslFailed == ssl.value \in {"error", "timeout"}

(***************************************************************************)
(* POST /api/analyze: the sub-task results are merged into the report.     *)
(***************************************************************************)
\* part_001: what lighthousePromise resolves to (its .catch included)
AuditBlock001(a) ==
    [error |-> IF a.out = "ok" THEN "none" ELSE "Lighthouse analysis failed.",
     value |-> a.value]

MergeAudit001_failedFinding(cats, a) ==
    IF a.out = "ok"
    THEN IF a.value.renderBlockingResources = 0
         THEN Push(cats, "speed", "passed", "no render-blocking resources")
         ELSE Push(cats, "speed", "failed", "render-blocking resources")
    ELSE Push(cats, "speed", "failed", "Lighthouse analysis failed")

\* part_001: the speed finding of a report without error
MergeAudit001(cats, a) ==
    IF a.out = "ok"
    THEN IF a.value.renderBlockingResources = 0
         THEN Push(cats, "speed", "passed", "no render-blocking resources")
         ELSE Push(cats, "speed", "failed", "render-blocking resources")
    ELSE cats

\* the audit score replaces the rule score
Max_overwrite(a, b) == b

Max(a, b) == IF a >= b THEN a ELSE b

\* server.js: the audit's performance and seo scores raise the rule scores
MergeAuditServer(cats, a) ==
    [cats EXCEPT !["performance"].score = Max(@, a.value.performance),
                 !["seo"].score = Max(@, a.value.seo)]

LighthouseCatch_noMarker(timedOut) == [error |-> "none", value |-> NoAudit]

\* server.js: the catch block of the audit
LighthouseCatch(timedOut) ==
    [error |-> IF timedOut THEN "Analysis timed out" ELSE "Analysis failed",
     value |-> NoAudit]

\* part_001: the security finding of the certificate probe
MergeSsl001(cats, v) ==
    CASE v = "valid" -> Push(cats, "security", "passed", "certificate valid")
      [] v = "expired" -> Push(cats, "security", "failed", "certificate expired")
      [] v \in {"error", "timeout"} ->
             Push(cats, "security", "failed", "could not verify certificate")
      [] OTHER -> cats

\* server.js: the security finding of the certificate probe
MergeSslServer(cats, v) ==
    IF v \in {"valid", "expired"}
    THEN Push(cats, "security", "passed", "certificate valid")
    ELSE Push(cats, "security", "warning", "certificate analysis failed or timed out")

\* the length of one category's list instead of the sum over all
SumLen_firstOnly(cats, S, type) ==
    IF S = {} THEN 0 ELSE Len(cats[CHOOSE x \in S : TRUE][type])

RECURSIVE SumLen(_, _, _)
SumLen(cats, S, type) ==
    IF S = {} THEN 0
    ELSE LET c == CHOOSE x \in S : TRUE
         IN Len(cats[c][type]) + SumLen(cats, S \ {c}, type)

\* the totals and the overall score; part_001 (calculateScores) scores the
\* categories here, server.js has scored them before the sub-tasks
Finalize(res) ==
    LET cats == IF ver = "part001" THEN ScoreCategories(res.cats) ELSE res.cats
    IN [res EXCEPT !.cats = cats,
                   !.overallScore = OverallScore(cats),
                   !.totalPassed = SumLen(cats, DOMAIN cats, "passed"),
                   !.totalWarnings = SumLen(cats, DOMAIN cats, "warnings"),
                   !.totalFailed = SumLen(cats, DOMAIN cats, "failed")]

Respond200(res) ==
    /\ results' = Finalize(res)
    /\ response' = [status |-> 200, error |-> "none", details |-> "none"]
    /\ SetPc("responded")

\* await lighthousePromise (part_001) / the audit's side of the race
\* (server.js, part_000) settled
HAuditSettled ==
    /\ AtPc("h_awaitAudit")
    /\ audit.pc = "settled"
    /\ req' = [req EXCEPT !.auditSeen = audit.out]
    /\ UNCHANGED <<pages, audit, ssl>>
    /\ UNCHANGED mgrAll
    /\ IF ver = "part001"
       THEN /\ results' = [results EXCEPT !.lighthouse = AuditBlock001(audit),
                                          !.cats = MergeAudit001(@, audit)]
            /\ SetPc("h_awaitSsl")
            /\ UNCHANGED response
       ELSE IF audit.out = "ok"
            THEN Respond200([results EXCEPT
                               !.lighthouse = [error |-> "none", value |-> audit.value],
                               !.cats = MergeAuditServer(@, audit)])
            ELSE Respond200([results EXCEPT !.lighthouse = LighthouseCatch(FALSE)])

\* server.js, part_000: the 45 s timer of the handler wins the race; the
\* audit goes on unobserved
HAuditTimeout ==
    /\ AtPc("h_awaitAudit")
    /\ ver # "part001"
    /\ audit.pc # "settled"
    /\ req' = [req EXCEPT !.auditSeen = "timeout"]
    /\ Respond200([results EXCEPT !.lighthouse = LighthouseCatch(TRUE)])
    /\ UNCHANGED <<pages, audit, ssl>>
    /\ UNCHANGED mgrAll

\* await sslPromise (part_001) / the certificate race (server.js, part_000)
\* settled; server.js and part_000 start the audit only now
HSslSettled ==
    /\ AtPc("h_awaitSsl")
    /\ ssl.pc = "settled"
    /\ req' = [req EXCEPT !.sslSeen = ssl.value]
    /\ UNCHANGED <<pages, ssl>>
    /\ UNCHANGED mgrAll
    /\ IF ver = "part001"
       THEN /\ Respond200([results EXCEPT !.sslInfo = ssl.value,
                                          !.cats = MergeSsl001(@, ssl.value)])
            /\ UNCHANGED audit
       ELSE /\ results' = [results EXCEPT
                             !.sslInfo = IF SslFailed THEN @ ELSE ssl.value,
                             !.cats = MergeSslServer(@, ssl.value)]
            /\ audit' = StartAudit
            /\ SetPc("h_awaitAudit")
            /\ UNCHANGED response

\* the response was sent and no audit is left running: the next request
Reset ==
    /\ AtPc("responded")
    /\ audit.pc \in {"none", "settled"}
    /\ proc' = [proc EXCEPT ![ReqProc] = InitProc]
    /\ req' = InitReqRec
    /\ pages' = <<>>
    /\ results' = NoResults
    /\ audit' = InitAudit
    /\ ssl' = InitSsl
    /\ response' = NoResponse
    /\ UNCHANGED mgrAll

Init ==
    /\ ver \in Versions
    /\ browser = Null
    /\ lastUsed = Null
    /\ initAttempts = 0
    /\ isInitializing = FALSE
    /\ live = {}
    /\ now = 1
    /\ proc = [p \in Procs |-> InitProc]
    /\ exhausted = FALSE
    /\ req = InitReqRec
    /\ pages = <<>>
    /\ results = NoResults
    /\ audit = InitAudit
    /\ ssl = InitSsl
    /\ response = NoResponse

Next ==
    \/ \E p \in Procs : CallGetBrowser(p)
    \/ \E p \in Procs : CallCloseBrowser(p)
    \/ \E p \in Procs : GbPoll(p)
    \/ \E p \in Procs : GbCloseOldDone(p)
    \/ \E p \in Procs : GbLaunchOk(p)
    \/ \E p \in Procs : GbLaunchFail(p)
    \/ \E p \in Procs : GbProbeOk(p)
    \/ \E p \in Procs : GbProbeFail(p)
    \/ \E p \in Procs : GbCleanupDone(p)
    \/ \E p \in Procs : GbBackoffDone(p)
    \/ \E p \in Procs : CbCloseOk(p)
    \/ \E p \in Procs : CbCloseThrow(p)
    \/ \E p \in Procs : Finish(p)
    \/ Crash
    \/ Tick

Spec == Init /\ [][Next]_vars

NextReq ==
    \/ \E u \in Urls : ReqStart(u)
    \/ ADnsOk
    \/ ADnsFail
    \/ GotBrowser
    \/ AHealthy
    \/ AUnhealthy
    \/ AReget
    \/ AGotBrowser2
    \/ NewPageOk
    \/ \E e \in {"Target closed", "other"} : NewPageFail(e)
    \/ ConfigOk
    \/ \E e \in {"Target closed", "other"} : ConfigFail(e)
    \/ \E e \in GotoErrors : F001GotoFail(e)
    \/ \E st \in Statuses : F001GotoStatus(st)
    \/ \E d \in Docs : F001ErrContent(d)
    \/ \E d \in Docs : F001ContentOk(d)
    \/ \E e \in {"Target closed", "other"} : F001ContentFail(e)
    \/ F001Delay
    \/ \E e \in GotoErrors \cup {"HTTP error status"} : AGotoFail(e)
    \/ AGotoOk
    \/ \E e \in {"Target closed", "other"} : ALoadedFail(e)
    \/ \E c \in ContentKinds, d \in Docs : ALoaded(c, d)
    \/ ANavWaitOk
    \/ \E e \in {"Target closed", "other"} : ANavWaitFail(e)
    \/ A0RecloseDone
    \/ A0RenewOk
    \/ \E e \in {"Target closed", "other"} : A0RenewFail(e)
    \/ ACatchCloseDone
    \/ ARetry
    \/ FinalCloseDone
    \/ F001FinalCloseFail
    \/ AuditLaunchOk
    \/ AuditLaunchFail
    \/ \E v \in AuditValues : LhResolve(v)
    \/ LhFail
    \/ LhTimeout
    \/ AuditKillOk
    \/ AuditKillThrow
    \/ \E v \in {"valid", "expired"} : SslResolve(v)
    \/ SslFail("error")
    \/ SslTimeout
    \/ HAuditSettled
    \/ HAuditTimeout
    \/ HSslSettled
    \/ Reset
    \/ GbCloseOldDone(ReqProc)
    \/ GbLaunchOk(ReqProc)
    \/ GbLaunchFail(ReqProc)
    \/ GbProbeOk(ReqProc)
    \/ GbProbeFail(ReqProc)
    \/ GbCleanupDone(ReqProc)
    \/ GbBackoffDone(ReqProc)
    \/ CbCloseOk(ReqProc)
    \/ CbCloseThrow(ReqProc)
    \/ Crash
    \/ Tick

SpecReq == Init /\ [][NextReq]_vars

\* the timers of the code fire and the continuations of settled awaits run;
\* nothing obliges lighthouse(), a connection or a launch to ever settle
SpecReqFair ==
    /\ Init /\ [][NextReq]_vars
    /\ WF_vars(LhTimeout)
    /\ WF_vars(HAuditTimeout)
    /\ WF_vars(HAuditSettled)
    /\ WF_vars(HSslSettled)
    /\ WF_vars(AuditKillOk \/ AuditKillThrow)
    /\ WF_vars(SslTimeout)

(***************************************************************************)
(* calculateScores of part_001 as a function of the finding lists: each    *)
(* category holds P passed, F failed and W warning findings.  commonSeo    *)
(* takes every combination of counts up to MaxFindings (and 4/1/0, score   *)
(* 80); the other categories take the counts that give the scores named.   *)
(***************************************************************************)
MaxFindings == 3

Findings(n) == [i \in 1..n |-> "finding"]
Counted(t) ==
    [passed |-> Findings(t[1]), failed |-> Findings(t[2]), warnings |-> Findings(t[3]),
     score |-> 0]
CommonSeoCounts == ((0..MaxFindings) \X (0..MaxFindings) \X (0..MaxFindings)) \cup {<<4, 1, 0>>}
\* 70, 67, 100
SpeedCounts == {<<7, 3, 0>>, <<2, 1, 0>>, <<0, 0, 0>>}
\* 100, 50
SecurityCounts == {<<1, 0, 0>>, <<1, 1, 0>>}
\* 90, 0, 100
MobileCounts == {<<9, 1, 0>>, <<0, 1, 0>>, <<0, 0, 0>>}
\* 60, 0, 100
AdvancedSeoCounts == {<<3, 2, 0>>, <<0, 1, 0>>, <<0, 0, 0>>}

ScoreInputs ==
    [commonSeo : {Counted(t) : t \in CommonSeoCounts},
     speed : {Counted(t) : t \in SpeedCounts},
     security : {Counted(t) : t \in SecurityCounts},
     mobile : {Counted(t) : t \in MobileCounts},
     advancedSeo : {Counted(t) : t \in AdvancedSeoCounts}]

InitScore ==
    /\ ver = "part001"
    /\ browser = Null
    /\ lastUsed = Null
    /\ initAttempts = 0
    /\ isInitializing = FALSE
    /\ live = {}
    /\ now = 1
    /\ proc = [p \in Procs |-> InitProc]
    /\ exhausted = FALSE
    /\ req = InitReqRec
    /\ pages = <<>>
    /\ results \in {[NoResults EXCEPT !.cats = cats] : cats \in ScoreInputs}
    /\ audit = InitAudit
    /\ ssl = InitSsl
    /\ response = NoResponse

\* calculateScores(results)
CalculateScores ==
    /\ results.cats # <<>>
    /\ results.overallScore = -1
    /\ results' = Finalize(results)
    /\ UNCHANGED <<req, pages, audit, ssl, response, proc>>
    /\ UNCHANGED mgrAll

NextScore == CalculateScores

SpecScore == InitScore /\ [][NextScore]_vars

(***************************************************************************)
(* The Rule Evaluator and the Score Aggregator as a function of their      *)
(* inputs: the document, the URL scheme, the HTTP status and the settled   *)
(* sub-task results.  The handler evaluates the rules, then merges the     *)
(* sub-task results and computes the totals; a later request with the same *)
(* inputs does both again, while the browser manager goes on.              *)
(***************************************************************************)
TitleLens == {0, 5, 10, 11, 30, 45, 60, 69, 70}
DescLens == {0, 50, 70, 71, 120, 140, 159, 160, 161}

\* a bare page, a well-formed page, a page with defects: each with every
\* title length and with every description length
RuleDocs ==
    {[d EXCEPT !.titleLen = t] : d \in Docs, t \in TitleLens}
    \cup {[d EXCEPT !.descLen = m] : d \in Docs, m \in DescLens}

\* the report of the handler for fetched document d, audit result a and
\* certificate result sv, from the rule results rr on
Aggregate(rr, https, a, sv) ==
    IF ver = "part001"
    THEN Finalize([rr EXCEPT !.lighthouse = AuditBlock001(a),
                             !.sslInfo = sv,
                             !.cats = MergeSsl001(MergeAudit001(@, a), sv)])
    ELSE LET afterSsl ==
                 IF https
                 THEN [rr EXCEPT !.sslInfo = IF sv \in {"error", "timeout"} THEN @ ELSE sv,
                                 !.cats = MergeSslServer(@, sv)]
                 ELSE rr
         IN IF a.out = "ok"
            THEN Finalize([afterSsl EXCEPT
                             !.lighthouse = [error |-> "none", value |-> a.value],
                             !.cats = MergeAuditServer(@, a)])
            ELSE Finalize([afterSsl EXCEPT !.lighthouse = LighthouseCatch(a.out = "timeout")])

Report(d, https, status, a, sv) ==
    Aggregate(NewResults(RuleResults(d, https, status)), https, a, sv)

InitRules ==
    /\ ver \in Versions
    /\ browser = Null
    /\ lastUsed = Null
    /\ initAttempts = 0
    /\ isInitializing = FALSE
    /\ live = {}
    /\ now = 1
    /\ proc = [p \in Procs |-> InitProc]
    /\ exhausted = FALSE
    /\ \E u \in {"http", "https"}, d \in RuleDocs, st \in {200, 404} :
          req = [InitReqRec EXCEPT !.url = u, !.doc = d, !.status = st, !.pend = "return"]
    /\ pages = <<>>
    /\ results = NoResults
    /\ \E v \in AuditValues :
          audit \in {[pc |-> "settled", chrome |-> "killed", out |-> "ok", value |-> v],
                     [pc |-> "settled", chrome |-> "killed", out |-> "error", value |-> NoAudit]}
    /\ IF req.url = "https" THEN \E v \in {"valid", "error"} : ssl = [pc |-> "settled", value |-> v]
       ELSE IF ver = "part001" THEN ssl = [pc |-> "settled", value |-> "info"]
       ELSE ssl = InitSsl
    /\ response = NoResponse

\* the cheerio-based checks of the handler
EvaluateRules ==
    /\ results = NoResults
    /\ results' = NewResults(RuleResults(req.doc, Https, req.status))
    /\ UNCHANGED <<req, pages, audit, ssl, response, proc>>
    /\ UNCHANGED mgrAll

\* the sub-task results are merged, the totals and the overall score computed
AggregateScores ==
    /\ results.cats # <<>>
    /\ results.overallScore = -1
    /\ results' = Aggregate(results, Https, audit, ssl.value)
    /\ response' = [status |-> 200, error |-> "none", details |-> "none"]
    /\ SetPc("responded")
    /\ UNCHANGED <<req, pages, audit, ssl>>
    /\ UNCHANGED mgrAll

\* another request with the same inputs is answered
Rerun ==
    /\ Me.pc \in {"responded", "respondedAgain"}
    /\ results' = Report(req.doc, Https, req.status, audit, ssl.value)
    /\ SetPc("respondedAgain")
    /\ UNCHANGED <<req, pages, audit, ssl, response>>
    /\ UNCHANGED mgrAll

NextRules ==
    \/ EvaluateRules
    \/ AggregateScores
    \/ Rerun
    \/ \E p \in Procs \ {ReqProc} : CallGetBrowser(p)
    \/ \E p \in Procs \ {ReqProc} : GbCloseOldDone(p)
    \/ \E p \in Procs \ {ReqProc} : GbLaunchOk(p)
    \/ \E p \in Procs \ {ReqProc} : GbProbeOk(p)
    \/ \E p \in Procs \ {ReqProc} : Finish(p)
    \/ Crash
    \/ Tick

SpecRules == InitRules /\ [][NextRules]_vars

(***************************************************************************)
(* Shutdown.  A chain is a signal handler or the uncaughtException         *)
(* handler: server.js and part_000 await closeBrowser() in the handler,    *)
(* part_001 calls it in the callback of server.close().  A chain at        *)
(* "exited" has called process.exit, or (part_000, which registers no      *)
(* uncaughtException handler) the runtime has ended the process; nothing   *)
(* runs after that.                                                        *)
(***************************************************************************)
Exited == \E p \in Procs : proc[p].pc = "exited"

\* closeBrowser() called without await: process.exit follows at once
GracefulShutdown_noAwait(p, r) ==
    /\ proc' = [proc EXCEPT ![p] = [r EXCEPT !.pc = "exited"]]
    /\ UNCHANGED <<ver, browser, lastUsed, initAttempts, isInitializing, live, now, exhausted>>

\* the handler up to its first await
GracefulShutdown(p, r) ==
    IF ver = "part001"
    THEN /\ proc' = [proc EXCEPT ![p] = [r EXCEPT !.pc = "sd_serverClose"]]
         /\ UNCHANGED <<ver, browser, lastUsed, initAttempts, isInitializing, live, now, exhausted>>
    ELSE CloseBrowser(p, [r EXCEPT !.ret = "sd_exit"])

\* SIGTERM or SIGINT is delivered
Signal(p) ==
    /\ UNCHANGED reqVars
    /\ proc[p].pc = "idle"
    /\ GracefulShutdown(p, [proc[p] EXCEPT !.err = "signal"])

\* an exception reaches the top level
UncaughtException(p) ==
    /\ UNCHANGED reqVars
    /\ proc[p].pc = "idle"
    /\ IF ver = "part000"
       THEN /\ proc' = [proc EXCEPT ![p] = [@ EXCEPT !.pc = "exited", !.err = "uncaughtException"]]
            /\ UNCHANGED <<ver, browser, lastUsed, initAttempts, isInitializing, live, now, exhausted>>
       ELSE GracefulShutdown(p, [proc[p] EXCEPT !.err = "uncaughtException"])

\* part_001: the HTTP server has closed, its callback calls closeBrowser()
ServerClosed(p) ==
    /\ UNCHANGED reqVars
    /\ proc[p].pc = "sd_serverClose"
    /\ CloseBrowser(p, [proc[p] EXCEPT !.ret = "sd_exit"])

\* process.exit
Exit(p) ==
    /\ UNCHANGED reqVars
    /\ proc[p].pc = "sd_exit"
    /\ proc' = [proc EXCEPT ![p] = [@ EXCEPT !.pc = "exited"]]
    /\ UNCHANGED <<ver, browser, lastUsed, initAttempts, isInitializing, live, now, exhausted>>

NextShutdown ==
    \/ ~Exited /\ \E p \in Procs : CallGetBrowser(p)
    \/ ~Exited /\ \E p \in Procs : CallCloseBrowser(p)
    \/ ~Exited /\ \E p \in Procs : GbPoll(p)
    \/ ~Exited /\ \E p \in Procs : GbCloseOldDone(p)
    \/ ~Exited /\ \E p \in Procs : GbLaunchOk(p)
    \/ ~Exited /\ \E p \in Procs : GbLaunchFail(p)
    \/ ~Exited /\ \E p \in Procs : GbProbeOk(p)
    \/ ~Exited /\ \E p \in Procs : GbProbeFail(p)
    \/ ~Exited /\ \E p \in Procs : GbCleanupDone(p)
    \/ ~Exited /\ \E p \in Procs : GbBackoffDone(p)
    \/ ~Exited /\ \E p \in Procs : CbCloseOk(p)
    \/ ~Exited /\ \E p \in Procs : CbCloseThrow(p)
    \/ ~Exited /\ \E p \in Procs : Finish(p)
    \/ ~Exited /\ \E p \in Procs : Signal(p)
    \/ ~Exited /\ \E p \in Procs : UncaughtException(p)
    \/ ~Exited /\ \E p \in Procs : ServerClosed(p)
    \/ ~Exited /\ \E p \in Procs : Exit(p)
    \/ ~Exited /\ Crash
    \/ ~Exited /\ Tick

SpecShutdown == Init /\ [][NextShutdown]_vars

(***************************************************************************)
(* Claims about the browser manager.                                       *)
(***************************************************************************)
\* the chain p is inside the initialization section of getBrowser
InInit(p) == proc[p].pc \in {"gb_closeOld", "gb_launch", "gb_probe", "gb_cleanup", "gb_backoff"}

\* C1: in the versions with the isInitializing flag, while one caller is
\* inside its initialization section no other caller has a
\* puppeteer.launch in flight, so at most one launch is in flight.
C1_SingleLaunch ==
    HasFlag => \A p, q \in Procs : (p # q /\ InInit(p)) => proc[q].pc # "gb_launch"

\* C2: every browser process that was launched and not yet closed is the
\* one this.browser refers to, so at most one exists.
C2_OneBrowser == live \subseteq {browser}

\* C4: one getBrowser call of the flag-guarded versions calls
\* puppeteer.launch at most maxInitAttempts times, and one that threw for
\* an exhausted budget made exactly maxInitAttempts launches.
C4_LaunchBudget ==
    HasFlag => \A p \in Procs :
        /\ proc[p].launches <= maxInitAttempts
        /\ ThrewExhausted(proc[p]) => proc[p].launches = maxInitAttempts

\* C5: the getBrowser call that follows one that threw for an exhausted
\* budget launches again: it throws, or it returns a handle (never null)
\* after at least one launch of its own.
C5_RetriesFresh ==
    \A p \in Procs :
        (proc[p].afterExhausted /\ proc[p].outcome = "ok")
            => (proc[p].browser # Null /\ proc[p].launches >= 1)

(***************************************************************************)
(* Claims about one analysis request.                                      *)
(***************************************************************************)
FetchOver == Me.pc \in {"h_awaitAudit", "h_awaitSsl", "responded"}

\* C3: every page the fetcher opened with browser.newPage() has page.close()
\* called on it exactly once: never more than once, and exactly once when
\* the fetcher has returned or thrown.
C3_ClosedOnce ==
    /\ \A i \in DOMAIN pages : pages[i] <= 1
    /\ FetchOver => \A i \in DOMAIN pages : pages[i] = 1

AuditFailedSeen == response.status = 200 /\ req.auditSeen \in {"error", "timeout"}
SslFailedSeen == response.status = 200 /\ req.sslSeen \in {"error", "timeout"}
Rules(c) == RuleResults(req.doc, Https, req.status)[c]
IsPrefix(a, b) == Len(a) <= Len(b) /\ SubSeq(b, 1, Len(a)) = a
Awaiting == Me.pc \in {"h_awaitAudit", "h_awaitSsl"}
SpeedCategory == IF ver = "part001" THEN "speed" ELSE "performance"

\* C6: once the page was fetched the request is never answered 500, and
\* when the audit failed or timed out the 200 report holds an error marker
\* in its audit block, every category carries its rule-based findings and a
\* score, and the overall score is computed.
C6_AuditFailureStill200 ==
    /\ req.pend = "return" => response.status \in {0, 200}
    /\ AuditFailedSeen =>
          /\ results.lighthouse.error \notin {"none", "unset"}
          /\ \A c \in CategoryNames :
                /\ IsPrefix(Rules(c).passed, results.cats[c].passed)
                /\ IsPrefix(Rules(c).failed, results.cats[c].failed)
                /\ IsPrefix(Rules(c).warnings, results.cats[c].warnings)
                /\ results.cats[c].score \in 0..100
          /\ results.overallScore \in 0..100

C6_Witness == response.status = 200 /\ req.auditSeen = "timeout"

\* C7: when the certificate probe of an https URL failed or timed out, the
\* 200 report records it as one additional warning of the security
\* category and adds nothing to security.failed.
C7_CertWarning ==
    SslFailedSeen =>
        /\ results.cats["security"].failed = Rules("security").failed
        /\ Len(results.cats["security"].warnings) = Len(Rules("security").warnings) + 1

\* C8 as stated: a failed or timed-out audit adds one warning to the
\* speed / performance category and no failed finding.
C8_AuditWarning ==
    AuditFailedSeen =>
        /\ Len(results.cats[SpeedCategory].warnings) = Len(Rules(SpeedCategory).warnings) + 1
        /\ results.cats[SpeedCategory].failed = Rules(SpeedCategory).failed

\* C8 amended: a failed or timed-out audit is recorded by the error marker of
\* the audit block only; it adds no finding of any type, so outside the
\* security category (which receives the certificate finding) the finding
\* lists are the rule-based ones.
C8_AuditOmitted ==
    AuditFailedSeen =>
        /\ results.lighthouse.error \notin {"none", "unset"}
        /\ \A c \in CategoryNames \ {"security"} :
              /\ results.cats[c].passed = Rules(c).passed
              /\ results.cats[c].failed = Rules(c).failed
              /\ results.cats[c].warnings = Rules(c).warnings

C8_Witness == response.status = 200 /\ req.auditSeen = "error"

\* C9: while the handler awaits a sub-task of an https request both
\* sub-tasks have been started and no category has been scored yet, and the
\* report that is sent has merged the outcome of both.
C9_FanOutFanIn ==
    /\ (Awaiting /\ Https) =>
          /\ audit.pc # "none" /\ ssl.pc # "none"
          /\ \A c \in CategoryNames : results.cats[c].score = 0
          /\ results.overallScore = -1
    /\ (response.status = 200 /\ Https) =>
          req.auditSeen # "none" /\ req.sslSeen # "none"

\* C10: a Chrome that runLighthouseAnalysis launched is eventually killed.
C10_ChromeKilled == (audit.chrome = "alive") ~> (audit.chrome = "killed")

\* C11: a request whose page fetch returned is eventually answered, even
\* when the launch of the audit's Chrome, the audit run or the TLS handshake
\* never settles: only the timers of the code are assumed to fire.
C11_AlwaysAnswered == Awaiting ~> (response.status # 0)

\* calculateScores of part_001 has run on results
Scored == ver = "part001" /\ results.overallScore # -1

\* C12: after calculateScores every category with P passed, F failed and W
\* warning findings, P + F + W > 0, has score round(100 (P + W/2) / (P + F + W))
\* with halves rounded up: the integer s with s <= x + 1/2 < s + 1.
C12_CategoryScore ==
    Scored =>
        \A c \in DOMAIN results.cats :
            LET P == Len(results.cats[c].passed)
                F == Len(results.cats[c].failed)
                W == Len(results.cats[c].warnings)
                T == P + F + W
                s == results.cats[c].score
            IN T > 0 => /\ 2 * T * s <= 100 * (2 * P + W) + T
                        /\ 100 * (2 * P + W) + T < 2 * T * (s + 1)

\* P = 3, F = 1, W = 2 scored 67; P = 0, F = 3, W = 1 (12.5) scored 13
C12_Witness ==
    /\ Scored
    /\ Len(results.cats["commonSeo"].passed) = 3
    /\ Len(results.cats["commonSeo"].failed) = 1
    /\ Len(results.cats["commonSeo"].warnings) = 2
    /\ results.cats["commonSeo"].score = 67

OnlyAnswered ==
    /\ Me = [InitProc EXCEPT !.pc = "responded"]
    /\ pages = <<>>
    /\ audit = InitAudit
    /\ ssl = InitSsl

\* C14: a request without url is answered 400, and the step that answers
\* it leaves the browser manager as it was: no getBrowser, launch or close,
\* no page, no audit and no certificate probe.
C14_MissingUrl ==
    /\ [](req.url = "missing" => response.status = 400 /\ OnlyAnswered)
    /\ [][(AtPc("idle") /\ req'.url = "missing") =>
            /\ response'.status = 400
            /\ UNCHANGED <<browser, lastUsed, initAttempts, isInitializing, live, exhausted>>
            /\ UNCHANGED <<pages, audit, ssl>>]_vars

\* a request without url answered while the manager holds a browser
C14_Witness == req.url = "missing" /\ response.status = 400 /\ browser # Null

\* C15: a request whose url does not parse is answered 400 with a body
\* holding both error and details, without acquiring the browser or
\* starting a sub-task.
C15_InvalidUrl ==
    req.url = "invalid" =>
        /\ response.status = 400
        /\ response.error # "none"
        /\ response.details # "none"
        /\ OnlyAnswered

\* C17: an HTTP status of 400 or more is not an error of the fetch: the
\* fetcher never throws for it, and the request is answered 200 with the
\* rules evaluated, the categories and the overall score computed, and the
\* status recorded as a finding.
C17_HttpErrorRecoverable ==
    /\ req.err # "HTTP error status"
    /\ response.details # "HTTP error status"
    /\ (response.status # 0 /\ req.status >= 400) =>
          /\ response.status = 200
          /\ results.overallScore \in 0..100
          /\ \A c \in CategoryNames : results.cats[c].score \in 0..100
          /\ \E i \in DOMAIN results.cats["advancedSeo"].failed :
                results.cats["advancedSeo"].failed[i] \in {"status 404", "error status"}

(***************************************************************************)
(* More claims about the browser manager.                                  *)
(***************************************************************************)
\* the step in which the chain p evaluates the needsNewBrowser test of its
\* getBrowser call: it enters the call with the flag clear, or leaves the
\* wait loop
CheckStep(p) ==
    /\ proc[p].pc \in {"idle", "gb_wait"}
    /\ \/ proc'[p].pc \in {"gb_closeOld", "gb_launch"}
       \/ proc'[p].pc = "done" /\ proc'[p].outcome \in {"ok", "throw"}

\* no handle, a disconnected handle, or more than 5 minutes since the last
\* acquisition
RecreateCondition ==
    \/ browser = Null
    \/ browser \notin live
    \/ (lastUsed # Null /\ now - lastUsed > 5 * 60 * 1000)

\* C16: in server.js and part_001, getBrowser closes the handle it holds
\* and launches a browser iff at its test there is no handle, the handle is
\* disconnected, or lastUsed is set and more than maxIdleTime (5 minutes)
\* old; otherwise it returns the existing handle in the same step, without
\* launch or close.
C16_RecreateIff ==
    [][HasFlag => \A p \in Procs :
          /\ CheckStep(p) =>
                IF RecreateCondition
                THEN IF browser # Null
                     THEN proc'[p].pc = "gb_closeOld" /\ proc'[p].tgt = browser
                     ELSE proc'[p].pc = "gb_launch"
                ELSE /\ proc'[p].pc = "done"
                     /\ proc'[p].outcome = "ok"
                     /\ proc'[p].browser = browser
                     /\ UNCHANGED <<browser, live>>
          /\ (proc[p].pc = "gb_closeOld" /\ proc'[p].pc # "gb_closeOld") =>
                proc'[p].pc = "gb_launch"]_vars

\* a connected handle is being closed because it was idle for too long
C16_Witness ==
    /\ HasFlag
    /\ \E p \in Procs : proc[p].pc = "gb_closeOld" /\ proc[p].tgt = browser
    /\ browser \in live
    /\ lastUsed # Null /\ now - lastUsed > 5 * 60 * 1000

\* the chain p returns from getBrowser with a handle in this step
ReturnsOk(p) ==
    /\ proc[p].pc \notin {"idle", "done"}
    /\ proc'[p].pc = "done"
    /\ proc'[p].outcome = "ok"

\* C18: in server.js and part_001, a getBrowser call that launched a
\* browser returns it only from a successful liveness probe (a test page
\* opened and closed on it); a probe on a dead browser fails, counts as a
\* failed attempt, and what this.browser holds is closed.
C18_ProbedBeforeHandOut ==
    [][HasFlag => \A p \in Procs :
          /\ (ReturnsOk(p) /\ proc'[p].launches > 0) =>
                proc[p].pc = "gb_probe" /\ proc[p].tgt \in live
          /\ (proc[p].pc = "gb_probe" /\ proc'[p].pc # "gb_probe" /\ proc[p].tgt \notin live) =>
                /\ initAttempts' = initAttempts + 1
                /\ browser # Null => proc'[p].pc = "gb_cleanup" /\ proc'[p].tgt = browser]_vars

\* the getBrowser call of the chain p returns a handle / throws in this step
Acquires(p) == proc[p].pc # "done" /\ proc'[p].pc = "done" /\ proc'[p].outcome = "ok"
Throws(p) == proc[p].pc # "done" /\ proc'[p].pc = "done" /\ proc'[p].outcome = "throw"

\* C19: in server.js and part_001, a getBrowser call that returns a handle
\* sets lastUsed to the current time, a call that throws leaves it as it
\* was, and nothing else changes it.
C19_LastUsedFrame ==
    [][HasFlag =>
          /\ \A p \in Procs : Acquires(p) => lastUsed' = now
          /\ \A p \in Procs : Throws(p) => lastUsed' = lastUsed
          /\ lastUsed' # lastUsed => \E p \in Procs : Acquires(p)]_vars

\* one call has thrown after another had stamped lastUsed at a later time
\* than the start
C19_Witness ==
    /\ HasFlag
    /\ lastUsed = now /\ now > 1
    /\ \E p, q \in Procs : /\ proc[p].pc = "done" /\ proc[p].outcome = "ok"
                           /\ proc[q].pc = "done" /\ proc[q].outcome = "throw"

\* C20: in server.js and part_001 (part_000 registers no
\* uncaughtException handler and is ended by the runtime), after SIGTERM,
\* SIGINT or an uncaught exception the process exits only from a handler
\* whose closeBrowser() call has returned.
C20_CloseBeforeExit ==
    ver # "part000" =>
        \A p \in Procs : proc[p].pc = "exited" => proc[p].outcome = "closed"

\* the process has exited after closing a browser that had been handed out
C20_Witness ==
    /\ ver # "part000"
    /\ Exited
    /\ lastUsed # Null
    /\ browser = Null /\ live = {}

(***************************************************************************)
(* Claims about the report.                                                *)
(***************************************************************************)
AuditOkSeen == response.status = 200 /\ req.auditSeen = "ok"

\* s is the larger of r and a
IsMaxOf(s, r, a) == s >= r /\ s >= a /\ s \in {r, a}

\* C21: in server.js, when the audit succeeded the performance and seo
\* scores of the report are the larger of the rule-based score and the
\* audit's score; so every category score and the overall score are at
\* least what the report of the same page holds when the audit fails (the
\* rule-based scores and their rounded mean).
C21_TakeTheMax ==
    (ver = "server" /\ AuditOkSeen) =>
        LET a == results.lighthouse.value
            c == results.cats
            failedOverall == (Rules("seo").score + Rules("performance").score
                              + Rules("security").score + Rules("mobile").score + 2) \div 4
        IN /\ IsMaxOf(c["performance"].score, Rules("performance").score, a.performance)
           /\ IsMaxOf(c["seo"].score, Rules("seo").score, a.seo)
           /\ c["security"].score = Rules("security").score
           /\ c["mobile"].score = Rules("mobile").score
           /\ results.overallScore >= failedOverall

\* the audit raised the performance score and left a higher seo score
C21_Witness ==
    /\ ver = "server" /\ AuditOkSeen
    /\ results.cats["performance"].score = results.lighthouse.value.performance
    /\ results.cats["performance"].score > Rules("performance").score
    /\ results.cats["seo"].score > results.lighthouse.value.seo

\* the rules have been evaluated, the sub-task results not yet merged
RulesOnly == results.cats # <<>> /\ results.lighthouse.error = "unset"
AllFindings(c) == results.cats[c].passed \o results.cats[c].failed \o results.cats[c].warnings
Total(c) == Len(AllFindings(c))
OneIf(b) == IF b THEN 1 ELSE 0

\* C22: after the rule checks every category holds as many findings as
\* rules apply to it (part_001: commonSeo 4, one more for a page with
\* images, speed 2, security 2 or 3, mobile 1, advancedSeo 4; server.js:
\* seo 9, one more with images, performance 3, security 1 or 2, mobile 3),
\* and no finding stands in two lists or twice in one.
C22_OneFindingPerRule ==
    RulesOnly =>
        /\ IF ver = "part001"
           THEN /\ Total("commonSeo") = 4 + OneIf(req.doc.img > 0)
                /\ Total("speed") = 2
                /\ Total("security") = 2 + OneIf(Https)
                /\ Total("mobile") = 1
                /\ Total("advancedSeo") = 4
           ELSE /\ Total("seo") = 9 + OneIf(req.doc.img > 0)
                /\ Total("performance") = 3
                /\ Total("security") = 1 + OneIf(Https)
                /\ Total("mobile") = 3
        /\ \A c \in CategoryNames : \A i, j \in 1..Total(c) :
               i # j => AllFindings(c)[i] # AllFindings(c)[j]

\* part_001, a page with images: five commonSeo findings, a warning among them
C22_Witness ==
    /\ RulesOnly /\ ver = "part001"
    /\ req.doc.img > 0
    /\ Total("commonSeo") = 5
    /\ Len(results.cats["commonSeo"].warnings) > 0

\* the finding f stands in the list of the given type of category c
Holds(c, type, f) == \E i \in DOMAIN results.cats[c][type] : results.cats[c][type][i] = f

\* C23: the title and meta-description rules: a missing value is a failed
\* finding, a length inside the band, endpoints included (part_001: title
\* 10-70, description 70-160; server.js: title 30-60, description 120-160)
\* a passed one, a shorter length a warning.
C23_LengthBands ==
    RulesOnly =>
        LET t == req.doc.titleLen
            m == req.doc.descLen
        IN IF ver = "part001"
           THEN /\ t = 0 => Holds("commonSeo", "failed", "missing title")
                /\ (10 <= t /\ t <= 70) => Holds("commonSeo", "passed", "title good length")
                /\ (0 < t /\ t < 10) => Holds("commonSeo", "warnings", "title length")
                /\ m = 0 => Holds("commonSeo", "failed", "missing description")
                /\ (70 <= m /\ m <= 160) =>
                       Holds("commonSeo", "passed", "description good length")
                /\ (0 < m /\ m < 70) => Holds("commonSeo", "warnings", "description length")
           ELSE /\ t = 0 => Holds("seo", "failed", "missing title")
                /\ (30 <= t /\ t <= 60) => Holds("seo", "passed", "title optimal")
                /\ (0 < t /\ t < 30) => Holds("seo", "warnings", "title too short")
                /\ m = 0 => Holds("seo", "failed", "missing description")
                /\ (120 <= m /\ m <= 160) => Holds("seo", "passed", "description optimal")
                /\ (0 < m /\ m < 120) => Holds("seo", "warnings", "description too short")

DiagProc == CHOOSE p \in Procs : \A q \in Procs : q <= p

Answer(p, body) ==
    /\ response' = body
    /\ proc' = [proc EXCEPT ![p] = InitProc]

Suspend(p, pc, ret) ==
    /\ proc' = [proc EXCEPT ![p] = [@ EXCEPT !.pc = pc, !.ret = ret, !.tgt = browser]]
    /\ UNCHANGED response

HealthBody(h) == [status |-> 200, endpoint |-> "health", browserHealthy |-> h]

StatusBody(h) ==
    [status |-> 200, endpoint |-> "browser-status", browserExists |-> browser # Null,
     browserConnected |-> (browser # Null /\ isConnected(browser)), browserHealthy |-> h,
     lastUsed |-> lastUsed, initAttempts |-> initAttempts, isInitializing |-> isInitializing]

\* the handler continues with the answer h of isBrowserHealthy
Healthy(p, ret, h) ==
    Answer(p, IF ret = "d_health" THEN HealthBody(h) ELSE StatusBody(h))

\* isBrowserHealthy up to its await: false without a handle, else
\* this.browser.pages() is called
IsBrowserHealthy_viaGetBrowser(p, ret) ==
    /\ GetBrowser(p, [proc[p] EXCEPT !.ret = "done"])
    /\ UNCHANGED response

IsBrowserHealthy(p, ret) ==
    /\ IF browser = Null THEN Healthy(p, ret, FALSE) ELSE Suspend(p, "d_pages", ret)
    /\ UNCHANGED mgrAll

\* GET /api/health
Health(p) ==
    /\ proc[p].pc = "idle"
    /\ IsBrowserHealthy(p, "d_health")
    /\ UNCHANGED <<req, pages, results, audit, ssl>>

\* GET /api/browser-status
BrowserStatus(p) ==
    /\ proc[p].pc = "idle"
    /\ IsBrowserHealthy(p, "d_status")
    /\ UNCHANGED <<req, pages, results, audit, ssl>>

\* browser.pages() resolved with an array: this.browser.isConnected() is
\* read, a TypeError on a handle nulled in the meantime is caught
PagesOk(p) ==
    /\ proc[p].pc = "d_pages"
    /\ proc[p].tgt \in live
    /\ Healthy(p, proc[p].ret, browser # Null /\ isConnected(browser))
    /\ UNCHANGED mgrAll
    /\ UNCHANGED <<req, pages, results, audit, ssl>>

\* browser.pages() rejected
PagesFail(p) ==
    /\ proc[p].pc = "d_pages"
    /\ Healthy(p, proc[p].ret, FALSE)
    /\ UNCHANGED mgrAll
    /\ UNCHANGED <<req, pages, results, audit, ssl>>

TestUrlBody(dns, sslTest) ==
    [status |-> 200, endpoint |-> "test-url", dns |-> dns, ssl |-> sslTest]

\* POST /api/test-url up to dns.resolve4
TestUrl(p, url) ==
    /\ proc[p].pc = "idle"
    /\ IF url = "missing"
       THEN Answer(p, [status |-> 400, error |-> "URL is required", details |-> "none"])
       ELSE IF url = "invalid"
            THEN Answer(p, [status |-> 400, error |-> "Invalid URL",
                            details |-> "Invalid URL"])
            ELSE /\ proc' = [proc EXCEPT ![p] = [@ EXCEPT !.pc = "d_dns", !.ret = url]]
                 /\ UNCHANGED response
    /\ UNCHANGED mgrAll
    /\ UNCHANGED <<req, pages, results, audit, ssl>>

\* dns.resolve4 settled (a rejection becomes { error }); getSSLInfo is
\* called for https
TestUrlDns(p, dns) ==
    /\ proc[p].pc = "d_dns"
    /\ IF proc[p].ret = "https"
       THEN /\ proc' = [proc EXCEPT ![p] = [@ EXCEPT !.pc = "d_ssl", !.err = dns]]
            /\ UNCHANGED response
       ELSE Answer(p, TestUrlBody(dns, "null"))
    /\ UNCHANGED mgrAll
    /\ UNCHANGED <<req, pages, results, audit, ssl>>

\* getSSLInfo settled (a rejection becomes { error })
TestUrlSsl(p, sslTest) ==
    /\ proc[p].pc = "d_ssl"
    /\ Answer(p, TestUrlBody(proc[p].err, sslTest))
    /\ UNCHANGED mgrAll
    /\ UNCHANGED <<req, pages, results, audit, ssl>>

InitDiag == Init /\ ver = "server"

NextDiag ==
    \/ CallGetBrowser(ReqProc)
    \/ CallCloseBrowser(ReqProc)
    \/ GbCloseOldDone(ReqProc)
    \/ GbLaunchOk(ReqProc)
    \/ GbLaunchFail(ReqProc)
    \/ GbProbeOk(ReqProc)
    \/ GbProbeFail(ReqProc)
    \/ GbCleanupDone(ReqProc)
    \/ GbBackoffDone(ReqProc)
    \/ CbCloseOk(ReqProc)
    \/ CbCloseThrow(ReqProc)
    \/ Finish(ReqProc)
    \/ Health(DiagProc)
    \/ BrowserStatus(DiagProc)
    \/ PagesOk(DiagProc)
    \/ PagesFail(DiagProc)
    \/ \E u \in Urls : TestUrl(DiagProc, u)
    \/ \E r \in {"resolved", "error"} : TestUrlDns(DiagProc, r)
    \/ \E r \in {"valid", "error"} : TestUrlSsl(DiagProc, r)
    \/ Crash
    \/ Tick

SpecDiag == InitDiag /\ [][NextDiag]_vars

(***************************************************************************)
(* server.js: one /api/analyze request fetching its page on the chain      *)
(* ReqProc while POST /api/restart-browser runs on the chain DiagProc, in   *)
(* an environment where every launch and probe succeeds.                   *)
(***************************************************************************)
\* POST /api/restart-browser: await browserManager.closeBrowser()
RestartBrowser(p) ==
    /\ UNCHANGED reqVars
    /\ proc[p].pc = "idle"
    /\ CloseBrowser(p, [proc[p] EXCEPT !.ret = "rb_closed"])

\* closeBrowser returned: await browserManager.getBrowser(); the handler
\* answers when it settles
RestartGet(p) ==
    /\ UNCHANGED reqVars
    /\ proc[p].pc = "rb_closed"
    /\ GetBrowser(p, [proc[p] EXCEPT !.ret = "done"])

InitShared == Init /\ ver = "server"

NextShared ==
    \/ \E u \in {"invalid", "http"} : ReqStart(u)
    \/ ADnsOk
    \/ ADnsFail
    \/ GotBrowser
    \/ AHealthy
    \/ AUnhealthy
    \/ AReget
    \/ AGotBrowser2
    \/ NewPageOk
    \/ NewPageFail("Target closed")
    \/ ConfigOk
    \/ \E e \in {"Target closed", "Navigation timeout"} : AGotoFail(e)
    \/ AGotoOk
    \/ \E c \in {"short", "full"} : ALoaded(c, BaseDoc)
    \/ ANavWaitOk
    \/ ACatchCloseDone
    \/ ARetry
    \/ FinalCloseDone
    \/ \E p \in Procs : GbPoll(p)
    \/ \E p \in Procs : GbCloseOldDone(p)
    \/ \E p \in Procs : GbLaunchOk(p)
    \/ \E p \in Procs : GbProbeOk(p)
    \/ \E p \in Procs : CbCloseOk(p)
    \/ \E p \in Procs : CbCloseThrow(p)
    \/ RestartBrowser(DiagProc)
    \/ RestartGet(DiagProc)
    \/ Finish(DiagProc)
    \/ Crash
    \/ Tick

SpecShared == InitShared /\ [][NextShared]_vars

(***************************************************************************)
(* C25.  Navigation retry of analyzePage (server.js).  On one page session *)
(* page.goto is attempted at most three times, with waitUntil              *)
(* 'domcontentloaded', then 'load', then 'networkidle2'; a further attempt *)
(* is made only at the start of the loop or after the wait that follows a  *)
(* failed attempt, never after an attempt that yielded content; the step   *)
(* in which the third attempt fails throws the explanation of its cause to *)
(* the catch block of analyzePage; and the five low-level causes have      *)
(* pairwise distinct explanations, none of them the raw message.           *)
(***************************************************************************)
WaitOrder == <<"domcontentloaded", "load", "networkidle2">>

Causes ==
    {{"Target closed", "Session closed"}, {"Navigation timeout"},
     {"net::ERR_NAME_NOT_RESOLVED"}, {"net::ERR_CONNECTION_REFUSED"}, {"net::ERR_CERT_"}}

DistinctExplanations ==
    \A g \in Causes, h \in Causes : \A a \in g, b \in h :
        /\ NavErrorMessage(a) # a
        /\ (NavErrorMessage(a) = NavErrorMessage(b)) <=> (g = h)

C25_NavigationRetry ==
    /\ [](ver = "server" => IsPrefix(req.gotos, WaitOrder) /\ DistinctExplanations)
    /\ [][ver = "server" =>
            /\ Len(req'.gotos) > Len(req.gotos) =>
                   /\ req'.gotos = Append(req.gotos, WaitOrder[Len(req.gotos) + 1])
                   /\ \/ Me.pc = "r_config" /\ req.gotos = <<>>
                      \/ Me.pc = "a_navWait" /\ req.navErr # "none"
                   /\ req.content \in {"none", "empty"}
            /\ (Me.pc \in {"r_nav", "a_loaded"} /\ req.navRetries = 1
                  /\ req'.navRetries = 0) =>
                   /\ Len(req.gotos) = 3
                   /\ req'.err = NavErrorMessage(req'.navErr)
                   /\ Me'.pc = "a_catchClose"]_vars

C25_Witness ==
    /\ ver = "server"
    /\ req.gotos = WaitOrder
    /\ req.navRetries = 0
    /\ req.navErr = "net::ERR_CERT_"
    /\ req.err = "SSL certificate issue"
    /\ Me.pc = "a_catchClose"

(***************************************************************************)
(* C26.  The diagnostic endpoints of server.js have no effect on the       *)
(* browser manager: a step of /api/test-url, /api/health or                *)
(* /api/browser-status leaves browser, lastUsed, initAttempts and          *)
(* isInitializing unchanged, starts and ends no browser process, opens and *)
(* closes no page, and the chain that serves them is never inside          *)
(* getBrowser or closeBrowser and has launched nothing -- whatever the     *)
(* state of the manager.                                                   *)
(***************************************************************************)
DiagPcs == {"idle", "d_pages", "d_dns", "d_ssl"}

DiagStep == proc'[DiagProc] # proc[DiagProc] \/ response' # response

C26_DiagnosticsFrame ==
    /\ [](proc[DiagProc].pc \in DiagPcs /\ proc[DiagProc].launches = 0)
    /\ [][DiagStep => UNCHANGED <<browser, lastUsed, initAttempts, isInitializing,
                                  live, pages, exhausted>>]_vars

\* /api/browser-status has answered while a getBrowser call was initializing
C26_Witness ==
    /\ response.status = 200
    /\ "isInitializing" \in DOMAIN response
    /\ response.isInitializing
    /\ isInitializing
    /\ proc[ReqProc].pc = "gb_launch"

(***************************************************************************)
(* C27.  Score range: in every report each category score and the overall  *)
(* score is an integer from 0 to 100, whatever the findings of the         *)
(* document and, where an audit succeeded, whatever its scores.            *)
(***************************************************************************)
C27_ScoreRange ==
    results.overallScore # -1 =>
        /\ results.overallScore \in 0..100
        /\ \A c \in DOMAIN results.cats : results.cats[c].score \in 0..100

\* a report with an audit that scored 0 and 100, a category at 100 and a
\* category below 50
C27_Witness ==
    /\ results.overallScore # -1
    /\ ver = "server"
    /\ audit.out = "ok" /\ audit.value.performance = 0 /\ audit.value.seo = 100
    /\ \E c \in DOMAIN results.cats : results.cats[c].score = 100
    /\ \E c \in DOMAIN results.cats : results.cats[c].score < 50

(***************************************************************************)
(* C28.  Browser-error recovery of analyzePage (server.js).  When the      *)
(* catch block of an attempt has closed the page, then: if the attempt     *)
(* failed with a browser-related error -- its message names a closed       *)
(* target or session, an unavailable browser or a null page, or all three  *)
(* navigation attempts failed with 'Target closed' / 'Session closed' --   *)
(* and fewer than maxRetries retries were used, closeBrowser is called and *)
(* the fetch runs again, with no browser left to reuse; in every other     *)
(* case the error is thrown to the caller, which answers 500.              *)
(***************************************************************************)
BrowserRelated ==
    \/ IsBrowserError(req.err)
    \/ req.navRetries = 0 /\ req.navErr \in {"Target closed", "Session closed"}

C28_BrowserErrorRecovery ==
    /\ [](ver = "server" /\ Me.pc = "a_retry" => browser = Null \/ ~isConnected(browser))
    /\ [][ver = "server" /\ Me.pc = "a_catchClose" /\ Me' # Me =>
            IF req.retryCount < maxRetries /\ BrowserRelated
            THEN /\ Me'.ret = "a_retry"
                 /\ Me'.pc \in {"cb_close", "a_retry"}
                 /\ response' = response
            ELSE response'.status = 500]_vars

(***************************************************************************)
(* C29.  The shared browser is never closed under a page session still in  *)
(* use: while the fetch of a request holds an open page on a running       *)
(* browser, no other chain has called close() on that browser, neither in  *)
(* getBrowser's recycling nor in closeBrowser.                             *)
(***************************************************************************)
PageOpen == req.page # 0 /\ pages[req.page] = 0

C29_NoCloseUnderOpenPage ==
    \A q \in Procs \ {ReqProc} :
        ~ /\ PageOpen
          /\ proc[q].pc \in {"cb_close", "gb_closeOld"}
          /\ proc[q].tgt = Me.browser
          /\ isConnected(Me.browser)

(***************************************************************************)
(* C30.  In the versions with the flag, isInitializing is true exactly     *)
(* when some getBrowser call is inside its initialization section          *)
(* (closing the old handle, launching, probing, cleaning up or backing     *)
(* off): no caller's finally clears it while another caller is still       *)
(* initializing, and it is false once every call has returned or thrown.   *)
(***************************************************************************)
C30_FlagAccurate ==
    HasFlag => (isInitializing <=> \E p \in Procs : InInit(p))

(***************************************************************************)
(* C31.  Postcondition of getBrowser: a call that returns, returns a       *)
(* handle that is not null and is connected at the moment of the return.   *)
(***************************************************************************)
C31_ReturnsConnected ==
    [][\A p \in Procs :
          ReturnsOk(p) => /\ proc'[p].browser # Null
                          /\ proc'[p].browser \in live']_vars

(***************************************************************************)
(* C32.  Postcondition of closeBrowser: the call does not throw, and in    *)
(* the step in which its close() settles and it returns, the manager is    *)
(* left without a handle, whether close() resolved or threw.               *)
(***************************************************************************)
C32_ClosedMeansNoHandle ==
    [][\A p \in Procs :
          (proc[p].pc = "cb_close" /\ proc'[p].pc # "cb_close") =>
              /\ proc'[p].outcome = "closed"
              /\ browser' = Null]_vars

(***************************************************************************)
(* C33.  Report consistency in server.js: in a finished report the score   *)
(* of the security category is round(100 (P + W/2) / (P + F + W)), halves  *)
(* up, over the passed, failed and warnings lists of that category as the  *)
(* report holds them, the certificate finding included.                    *)
(***************************************************************************)
C33_SecurityScoreMatchesLists ==
    (ver = "server" /\ results.overallScore # -1) =>
        LET P == Len(results.cats["security"].passed)
            F == Len(results.cats["security"].failed)
            W == Len(results.cats["security"].warnings)
            T == P + F + W
            s == results.cats["security"].score
        IN /\ T > 0
           /\ 2 * T * s <= 100 * (2 * P + W) + T
           /\ 100 * (2 * P + W) + T < 2 * T * (s + 1)

(***************************************************************************)
(* C34.  In every finished report of part_001 each of the five categories  *)
(* holds at least one finding, so no returned category has the score of    *)
(* the empty-category branch of calculateScores.                           *)
(***************************************************************************)
C34_NoEmptyCategory ==
    (ver = "part001" /\ results.overallScore # -1) =>
        /\ DOMAIN results.cats = {"commonSeo", "speed", "security", "mobile", "advancedSeo"}
        /\ \A c \in DOMAIN results.cats : Total(c) >= 1

\* a report for a page without a viewport tag whose audit failed: mobile
\* holds its single finding, a failed one
C34_Witness ==
    /\ ver = "part001"
    /\ results.overallScore # -1
    /\ audit.out # "ok"
    /\ Total("mobile") = 1
    /\ Len(results.cats["mobile"].failed) = 1
    /\ results.cats["mobile"].score = 0

(***************************************************************************)
(* C35.  Totals match the lists: in every finished report the total of     *)
(* passed, of warning and of failed findings is the sum of the lengths of  *)
(* the lists of that type over the categories of the report as it is       *)
(* returned, the findings of the certificate probe and of the audit        *)
(* included.                                                               *)
(***************************************************************************)
ListTotal(type) ==
    LET n(c) == Len(results.cats[c][type])
    IN IF ver = "part001"
       THEN n("commonSeo") + n("speed") + n("security") + n("mobile") + n("advancedSeo")
       ELSE n("seo") + n("performance") + n("security") + n("mobile")

C35_TotalsMatchLists ==
    results.overallScore # -1 =>
        /\ results.totalPassed = ListTotal("passed")
        /\ results.totalWarnings = ListTotal("warnings")
        /\ results.totalFailed = ListTotal("failed")

\* part_001 report of an https page: the audit and the probe succeeded and
\* their findings ('no render-blocking resources', 'certificate valid') are
\* in the lists the totals count
C35_Witness ==
    /\ ver = "part001"
    /\ results.overallScore # -1
    /\ Https
    /\ audit.out = "ok" /\ audit.value.renderBlockingResources = 0
    /\ ssl.value = "valid"
    /\ Len(results.cats["speed"].passed) + Len(results.cats["speed"].warnings) = 3
    /\ Len(results.cats["security"].passed) + Len(results.cats["security"].warnings) = 4
    /\ results.totalPassed + results.totalWarnings + results.totalFailed
         = Total("commonSeo") + Total("speed") + Total("security") + Total("mobile")
           + Total("advancedSeo")

(***************************************************************************)
(* C36.  The bounds that make getBrowser terminate, in the versions with   *)
(* the flag: a waiting call polls isInitializing at most maxWaitAttempts   *)
(* times, and an initializing call starts at most maxInitAttempts          *)
(* launches (hence waits at most maxInitAttempts - 1 back-offs), for any   *)
(* interleaving of concurrent callers.                                     *)
(***************************************************************************)
C36_BoundedCall ==
    HasFlag => \A p \in Procs :
        /\ proc[p].attempts <= maxWaitAttempts
        /\ proc[p].launches <= maxInitAttempts
====
